---- MODULE Spec2Model ----
(***************************************************************************)
(* Model of the GA4 / GTM audit core (src/audit_core.py): the control      *)
(* evaluation pipeline and the batch runner run_audit.                     *)
(*                                                                         *)
(* The external Google API surfaces are stubbed by `world`: one record of  *)
(* responses per audit target, fixed when the run starts.  Every external  *)
(* call either raises (ok = FALSE) or returns the value v.                 *)
(***************************************************************************)
EXTENDS Integers, Sequences, FiniteSets, TLC

(***************************************************************************)
(* Bounds of the model.                                                    *)
(***************************************************************************)
MaxTargets == 2
MaxStreams == 2
MaxLinks == 1
MaxRows == 2

(***************************************************************************)
(* Python values.  A text is a sequence of characters (or opaque words).   *)
(***************************************************************************)
PyNone == [k |-> "None", s |-> <<>>, n |-> 0]
PyStr(s) == [k |-> "str", s |-> s, n |-> 0]
PyInt(n) == [k |-> "int", s |-> <<>>, n |-> n]
PyBool(b) == [k |-> "bool", s |-> <<>>, n |-> IF b THEN 1 ELSE 0]
PyList(items) == [k |-> "list", s |-> items, n |-> Len(items)]

Truthy(v) ==
    CASE v.k = "None" -> FALSE
      [] v.k = "str" -> v.s # <<>>
      [] v.k = "list" -> v.n # 0
      [] OTHER -> v.n # 0

\* x in (None, "", [], {})
IsEmptyValue(v) ==
    \/ v.k = "None"
    \/ v.k = "str" /\ v.s = <<>>
    \/ v.k = "list" /\ v.n = 0

\* dict.get(key) with the default None
Get(d, key) == IF key \in DOMAIN d THEN d[key] ELSE PyNone

\* dict.get(key, default)
GetOr(d, key, default) == IF key \in DOMAIN d THEN d[key] ELSE default

\* dict.update(extra)
Update(d, extra) ==
    [key \in DOMAIN d \cup DOMAIN extra |->
        IF key \in DOMAIN extra THEN extra[key] ELSE d[key]]

RECURSIVE LStrip(_)
LStrip(s) == IF s # <<>> /\ Head(s) = " " THEN LStrip(Tail(s)) ELSE s

RECURSIVE RStrip(_)
RStrip(s) ==
    IF s # <<>> /\ s[Len(s)] = " " THEN RStrip(SubSeq(s, 1, Len(s) - 1)) ELSE s

\* str.strip()
Strip(s) == RStrip(LStrip(s))

\* str.startswith(p)
StartsWith(s, p) == Len(s) >= Len(p) /\ SubSeq(s, 1, Len(p)) = p

\* sub in s
Contains(s, sub) ==
    \E i \in 1..(Len(s) - Len(sub) + 1) : SubSeq(s, i, i + Len(sub) - 1) = sub

\* s.split("/", 1)[1] for a text that contains "/"
AfterSlash(s) ==
    LET i == CHOOSE j \in 1..Len(s) : s[j] = "/" /\ \A h \in 1..(j - 1) : s[h] # "/"
    IN SubSeq(s, i + 1, Len(s))

AccountsPrefix == <<"a", "c", "c", "o", "u", "n", "t", "s", "/">>
PropertiesPrefix == <<"p", "r", "o", "p", "e", "r", "t", "i", "e", "s", "/">>

RECURSIVE SumSeq(_)
SumSeq(s) == IF s = <<>> THEN 0 ELSE Head(s) + SumSeq(Tail(s))

Last(s) == s[Len(s)]

(***************************************************************************)
(* External responses.                                                     *)
(***************************************************************************)
Ok(v) == [ok |-> TRUE, v |-> v]
Fail(d) == [ok |-> FALSE, v |-> d]

\* "<ErrorKind>: <message>" of a failed call
ErrText == "PermissionDenied: 403"

PropFields == {"display_name", "name", "property_type", "parent", "create_time",
               "update_time", "industry_category", "time_zone", "currency_code",
               "service_level"}

NoProp == [f \in PropFields |-> PyNone]

Prop(ptype, parent) ==
    [display_name |-> PyStr(<<"Site">>), name |-> PyStr(PropertiesPrefix \o <<"1">>),
     property_type |-> ptype, parent |-> parent,
     create_time |-> PyStr(<<"2024-01-01">>), update_time |-> PyStr(<<"2024-02-01">>),
     industry_category |-> PyStr(<<"TECHNOLOGY">>), time_zone |-> PyStr(<<"UTC">>),
     currency_code |-> PyStr(<<"USD">>), service_level |-> PyStr(<<"GOOGLE_ANALYTICS_STANDARD">>)]

PropertyTypes == {PyNone, PyStr(<<"PROPERTY_TYPE_ORDINARY">>), PyStr(<<"ROLLUP">>), PyStr(<<"SUBPROPERTY">>)}

Parents == {PyNone, PyStr(<<>>), PyStr(AccountsPrefix), PyStr(AccountsPrefix \o <<"9">>),
            PyStr(PropertiesPrefix \o <<"1">>)}

OrdinaryProp == Prop(PyStr(<<"PROPERTY_TYPE_ORDINARY">>), PyStr(AccountsPrefix \o <<"9">>))

Retention(reset) == [retention_duration |-> PyStr(<<"FOURTEEN_MONTHS">>), reset_user_data_on_new_activity |-> PyBool(reset)]
NoRetention == [retention_duration |-> PyNone, reset_user_data_on_new_activity |-> PyNone]

Signals == [state |-> PyStr(<<"GOOGLE_SIGNALS_ENABLED">>), consent |-> PyStr(<<"GOOGLE_SIGNALS_CONSENT_CONSENTED">>)]

Attribution ==
    [acquisition |-> PyStr(<<"THIRTY_DAYS">>), other |-> PyStr(<<"NINETY_DAYS">>),
     model |-> PyStr(<<"PAID_AND_ORGANIC_CHANNELS_DATA_DRIVEN">>)]

\* a data stream of the property: its type and what the two per-stream lookups answer
Stream(type, gst, ems) == [type_ |-> type, gst |-> gst, ems |-> ems]

SnippetAnswers == {Fail(PyNone), Ok(PyNone), Ok(PyStr(<<>>)), Ok(PyStr(<<"<script>">>))}
EmsAnswers == {Fail(FALSE), Ok(TRUE)}

WebStreams == {Stream("WEB_DATA_STREAM", g, e) : g \in SnippetAnswers, e \in EmsAnswers}
AppStream == Stream("ANDROID_APP_DATA_STREAM", Ok(PyNone), Fail(FALSE))
NominalStream == Stream("WEB_DATA_STREAM", Ok(PyStr(<<"<script>">>)), Ok(TRUE))

\* the five product-link surfaces, in the order of the checks mapping
LinkLabels == <<"google_ads_links", "bigquery_links", "firebase_links",
                "search_ads360_links", "dv360_advertiser_links">>

LinkMethod(label) ==
    CASE label = "google_ads_links" -> "list_google_ads_links"
      [] label = "bigquery_links" -> "list_big_query_links"
      [] label = "firebase_links" -> "list_firebase_links"
      [] label = "search_ads360_links" -> "list_search_ads360_links"
      [] label = "dv360_advertiser_links" -> "list_display_video360_advertiser_links"

LinkLabelSet == {LinkLabels[i] : i \in 1..Len(LinkLabels)}

\* a link surface: has = the client has the method, ok/v = the outcome of the listing
LinkAnswers ==
    {[has |-> FALSE, ok |-> FALSE, v |-> 0], [has |-> TRUE, ok |-> FALSE, v |-> 0]}
    \cup {[has |-> TRUE, ok |-> TRUE, v |-> n] : n \in 0..MaxLinks}

NominalLinks == [l \in LinkLabelSet |-> [has |-> TRUE, ok |-> TRUE, v |-> 1]]

EventNames == {"page_view", "session_start", "click"}

RECURSIVE SeqsUpTo(_, _)
SeqsUpTo(S, n) ==
    IF n = 0 THEN {<<>>}
    ELSE LET shorter == SeqsUpTo(S, n - 1)
         IN shorter \cup {Append(q, x) : q \in {r \in shorter : Len(r) = n - 1}, x \in S}

\* a change-history event: the resource names of its changes
ChangeEvent(names) == [changes |-> names]

NominalWorld ==
    [p01_prop |-> Ok(OrdinaryProp),
     account |-> Ok(PyStr(<<"Acme">>)),
     retention |-> Ok(Retention(TRUE)),
     signals |-> Ok(Signals),
     attribution |-> Ok(Attribution),
     event_count |-> Ok(<<5>>),
     change_history |-> Ok(<<>>),
     dims |-> Ok(1),
     mets |-> Ok(1),
     a00_prop |-> Ok(OrdinaryProp),
     streams |-> Ok(<<NominalStream>>),
     links |-> NominalLinks,
     key_events |-> Ok(1),
     top_events |-> Ok(<<"page_view", "session_start">>),
     realtime |-> Ok(<<3>>),
     containers |-> Ok(1)]


FailProp == Fail(NoProp)
FailRetention == Fail(NoRetention)
FailSignals == Fail([state |-> PyNone, consent |-> PyNone])
FailAttribution == Fail([acquisition |-> PyNone, other |-> PyNone, model |-> PyNone])

\* every external call raises
AllFailWorld ==
    [p01_prop |-> FailProp,
     account |-> Fail(PyNone),
     retention |-> FailRetention,
     signals |-> FailSignals,
     attribution |-> FailAttribution,
     event_count |-> Fail(<<>>),
     change_history |-> Fail(<<>>),
     dims |-> Fail(0),
     mets |-> Fail(0),
     a00_prop |-> FailProp,
     streams |-> Fail(<<>>),
     links |-> [l \in LinkLabelSet |-> [has |-> TRUE, ok |-> FALSE, v |-> 0]],
     key_events |-> Fail(0),
     top_events |-> Fail(<<>>),
     realtime |-> Fail(<<>>),
     containers |-> Fail(0)]

(***************************************************************************)
(* The stubbed worlds the runs are started in.  Each family varies the     *)
(* surfaces of one control and leaves the others nominal.                  *)
(***************************************************************************)
AccountAnswers == {Fail(PyNone), Ok(PyNone), Ok(PyStr(<<"Acme">>))}
RetentionAnswers == {FailRetention, Ok(Retention(TRUE)), Ok(Retention(FALSE))}
EventCountAnswers == {Fail(<<>>), Ok(<<>>), Ok(<<0>>), Ok(<<5>>)}

\* resource names that change-history events carry, for the audited property "1"
ThisPropertyStream == PyStr(PropertiesPrefix \o <<"1", "/", "d">>)
OtherProperty == PyStr(PropertiesPrefix \o <<"1", "2">>)
AccountResource == PyStr(AccountsPrefix \o <<"9">>)
ChangeEvents ==
    {ChangeEvent(<<>>), ChangeEvent(<<ThisPropertyStream>>), ChangeEvent(<<OtherProperty>>),
     ChangeEvent(<<AccountResource, ThisPropertyStream>>), ChangeEvent(<<PyNone>>)}

\* long answers of the change-history query: n events, every third one (when
\* mixed) about the account only, the others about this property in two shapes
LongHistory(n, mixed) ==
    [i \in 1..n |->
        IF mixed /\ i % 3 = 0 THEN ChangeEvent(<<AccountResource>>)
        ELSE IF i % 2 = 0 THEN ChangeEvent(<<ThisPropertyStream>>)
        ELSE ChangeEvent(<<AccountResource, ThisPropertyStream>>)]

LongHistories == {LongHistory(n, mixed) : n \in {24, 25, 26, 40}, mixed \in BOOLEAN}

ChangeHistoryAnswers ==
    {Fail(<<>>)} \cup {Ok(q) : q \in SeqsUpTo(ChangeEvents, MaxRows) \cup LongHistories}

\* a property type and a parent, with the secondary surfaces up (TRUE) or down
P01SurfaceWorld(t, p, b) ==
    [NominalWorld EXCEPT !.p01_prop = Ok(Prop(t, p)),
                         !.account = IF b[1] THEN Ok(PyStr(<<"Acme">>)) ELSE Fail(PyNone),
                         !.retention = IF b[2] THEN Ok(Retention(TRUE)) ELSE FailRetention,
                         !.signals = IF b[3] THEN Ok(Signals) ELSE FailSignals,
                         !.attribution = IF b[4] THEN Ok(Attribution) ELSE FailAttribution,
                         !.event_count = IF b[5] THEN Ok(<<5>>) ELSE Fail(<<>>),
                         !.change_history = IF b[6] THEN Ok(<<>>) ELSE Fail(<<>>)]

\* the values the answers of the secondary surfaces can carry
P01ValueWorld(p, a, r, g, e) ==
    [NominalWorld EXCEPT !.p01_prop = Ok(Prop(PyStr(<<"PROPERTY_TYPE_ORDINARY">>), p)),
                         !.account = a, !.retention = r, !.signals = g, !.event_count = e]

ChangeHistoryWorld(c) == [NominalWorld EXCEPT !.change_history = c]

StreamLists == SeqsUpTo(WebStreams \cup {AppStream}, MaxStreams)

StreamWorld(s) == [NominalWorld EXCEPT !.streams = s]

LinkWorld(l) == [NominalWorld EXCEPT !.links = l]

\* top_events is the eventName rows of the property in the lookback window,
\* one per distinct name, in the order the Data API produces them for a
\* request that states no ordering; the request's limit cuts them off
TopEventAnswers ==
    {Fail(<<>>)} \cup {Ok(q) : q \in SeqsUpTo(EventNames, MaxRows)}
    \cup {Ok(<<"click", "session_start", "page_view">>)}

TopEventsLimit == 50

\* a property with the two core events and n other event names, the core
\* events at places p and s of the rows
BusyProperty(n, p, s) ==
    [i \in 1..(n + 2) |->
        IF i = p THEN "page_view"
        ELSE IF i = s THEN "session_start"
        ELSE "custom_event_" \o ToString(i)]

BusyAnswers ==
    {Ok(BusyProperty(TopEventsLimit, p, s)) :
        p \in {1, TopEventsLimit, TopEventsLimit + 1, TopEventsLimit + 2},
        s \in {2, TopEventsLimit + 2}}

RealtimeAnswers == {Fail(<<>>)} \cup {Ok(q) : q \in SeqsUpTo({0, 3}, MaxRows)}

TailWorld(k, d, r) == [NominalWorld EXCEPT !.key_events = k, !.top_events = d, !.realtime = r]

\* every surface of the MVP chain independently up (TRUE) or down
MixWorld(b) ==
    [NominalWorld EXCEPT !.a00_prop = IF b[1] THEN Ok(OrdinaryProp) ELSE FailProp,
                         !.streams = IF b[2] THEN Ok(<<Stream("WEB_DATA_STREAM",
                                                       IF b[3] THEN Ok(PyStr(<<"<script>">>)) ELSE Fail(PyNone),
                                                       IF b[4] THEN Ok(TRUE) ELSE Fail(FALSE))>>)
                                     ELSE Fail(<<>>),
                         !.links = IF b[5] THEN NominalLinks ELSE AllFailWorld.links,
                         !.key_events = IF b[6] THEN Ok(1) ELSE Fail(0),
                         !.top_events = IF b[7] THEN NominalWorld.top_events ELSE Fail(<<>>),
                         !.realtime = IF b[8] THEN Ok(<<3>>) ELSE Fail(<<>>)]

CmcdWorld(d, m) == [NominalWorld EXCEPT !.dims = d, !.mets = m]

GtmWorld(c) == [NominalWorld EXCEPT !.containers = c]

NoWebStreamWorld == [NominalWorld EXCEPT !.streams = Ok(<<AppStream>>), !.containers = Fail(0)]

RollupWorld ==
    [NominalWorld EXCEPT !.p01_prop = Ok(Prop(PyStr(<<"ROLLUP">>), PyStr(AccountsPrefix \o <<"9">>)))]

\* the worlds of a batch run, by name: healthy, unreachable, a roll-up property
BatchWorldNames == {"nominal", "all_fail", "rollup"}

BatchWorld(name) ==
    CASE name = "nominal" -> NominalWorld
      [] name = "all_fail" -> AllFailWorld
      [] name = "rollup" -> RollupWorld

(***************************************************************************)
(* Audit targets: the records of the clients list.                         *)
(***************************************************************************)
Target(name, pid, gtm) == [client_name |-> name, property_id |-> pid, gtm_account_id |-> gtm]

RawIds == {PyNone, PyStr(<<>>), PyStr(<<" ">>), PyStr(<<"1">>), PyStr(<<" ", "1", " ">>), PyStr(<<"1", "2">>)}
RawGtmIds == {PyNone, PyStr(<<>>), PyStr(<<" ">>), PyStr(<<"7">>)}
RawNames == {PyNone, PyStr(<<" ", "A">>)}

AnyTargets == {Target(n, p, g) : n \in RawNames, p \in RawIds, g \in RawGtmIds}

\* property ids that are missing or null, empty, whitespace only
BlankIds == {PyNone, PyStr(<<>>), PyStr(<<" ">>)}

BatchTargets ==
    {Target(PyStr(<<"A">>), PyStr(<<" ">>), PyStr(<<"7">>)),
     Target(PyStr(<<"A">>), PyStr(<<"1">>), PyStr(<<>>)),
     Target(PyStr(<<"A">>), PyStr(<<"1">>), PyStr(<<"7">>)),
     Target(PyStr(<<"B">>), PyStr(<<"1", "2">>), PyStr(<<"7">>))}

\* str(c.get(key) or "").strip()
NormId(v) == IF Truthy(v) THEN Strip(v.s) ELSE <<>>

\* (c.get("client_name") or "Unknown").strip()
NormName(v) == IF Truthy(v) THEN Strip(v.s) ELSE <<"Unknown">>

VARIABLES entry, clients, world, idx, pc, exc,
          client_name, property_id, gtm_account_id,
          all_findings, findings, profile, diag, calls, web_streams, si,
          run, first_table, out

vars == <<entry, clients, world, idx, pc, exc, client_name, property_id, gtm_account_id,
          all_findings, findings, profile, diag, calls, web_streams, si, run, first_table, out>>

EmptyDict == [key \in {} |-> PyNone]

\* nothing has been called on the findings table yet
NoOutput == [fn |-> "none"]
EmptyDiag == [errors |-> [key \in {} |-> ""], availability |-> [key \in {} |-> ""]]

Locals ==
    /\ exc = ""
    /\ all_findings = <<>>
    /\ findings = <<>>
    /\ profile = EmptyDict
    /\ diag = EmptyDiag
    /\ calls = <<>>
    /\ web_streams = <<>>
    /\ si = 0
    /\ run = 1
    /\ first_table = <<>>
    /\ out = NoOutput

\* run_audit(clients, creds=...) on a list of targets
InitRunAudit ==
    /\ entry = "run_audit"
    /\ \E n \in 0..MaxTargets :
          \/ /\ clients \in [1..n -> BatchTargets]
             /\ \E names \in [1..n -> BatchWorldNames] :
                   /\ \A i \in 1..n :
                         NormId(clients[i].property_id) = <<>> => names[i] = "nominal"
                   /\ world = [i \in 1..n |-> BatchWorld(names[i])]
          \/ /\ n = 1
             /\ clients \in [1..1 -> AnyTargets]
             /\ \E w \in {"nominal", "all_fail", "no_web_stream"} :
                   world = <<IF w = "no_web_stream" THEN NoWebStreamWorld ELSE BatchWorld(w)>>
          \* one target listed twice, with targets without a property id in between
          \/ /\ n = MaxTargets
             /\ \E x \in BatchTargets, p \in BlankIds,
                   w \in {NominalWorld, AllFailWorld, NoWebStreamWorld} :
                   /\ NormId(x.property_id) # <<>>
                   /\ clients = <<x>> \o [i \in 1..(n - 1) |-> Target(PyStr(<<"A">>), p, PyStr(<<"7">>))]
                                    \o <<x>>
                   /\ world = [i \in 1..(n + 1) |-> IF i \in {1, n + 1} THEN w ELSE NominalWorld]
    /\ idx = 0
    /\ pc = "ra_loop"
    /\ client_name = <<>>
    /\ property_id = <<>>
    /\ gtm_account_id = <<>>
    /\ Locals

\* a control called on its own, with keyword arguments, in the world w
InitControl(e, start, w) ==
    /\ entry = e
    /\ clients = <<Target(PyStr(<<"A">>), PyStr(<<"1">>), PyStr(<<"7">>))>>
    /\ world = <<w>>
    /\ idx = 1
    /\ pc = start
    /\ client_name = <<"A">>
    /\ property_id = <<"1">>
    /\ gtm_account_id = <<"7">>
    /\ Locals

InitP01 ==
    \/ \E t \in PropertyTypes, p \in Parents, b \in [1..6 -> BOOLEAN] :
          InitControl("control_property_profile", "p01_get_property", P01SurfaceWorld(t, p, b))
    \/ \E p \in Parents \ {PyNone}, a \in AccountAnswers, r \in RetentionAnswers,
          g \in {FailSignals, Ok(Signals)}, e \in EventCountAnswers :
          InitControl("control_property_profile", "p01_get_property", P01ValueWorld(p, a, r, g, e))
    \/ \E c \in ChangeHistoryAnswers :
          InitControl("control_property_profile", "p01_get_property", ChangeHistoryWorld(c))
    \/ \E w \in {[NominalWorld EXCEPT !.p01_prop = FailProp], AllFailWorld} :
          InitControl("control_property_profile", "p01_get_property", w)

InitMvp ==
    \/ \E s \in {Fail(<<>>)} \cup {Ok(q) : q \in StreamLists} :
          InitControl("audit_ga4_property_mvp", "a00", StreamWorld(s))
    \/ \E l \in [LinkLabelSet -> LinkAnswers] :
          InitControl("audit_ga4_property_mvp", "a00", LinkWorld(l))
    \/ \E k \in {Fail(0), Ok(0), Ok(1)}, d \in TopEventAnswers, r \in RealtimeAnswers :
          InitControl("audit_ga4_property_mvp", "a00", TailWorld(k, d, r))
    \/ \E d \in BusyAnswers :
          InitControl("audit_ga4_property_mvp", "a00", TailWorld(Ok(1), d, Ok(<<3>>)))
    \/ \E b \in [1..8 -> BOOLEAN] :
          InitControl("audit_ga4_property_mvp", "a00", MixWorld(b))

InitCmcd ==
    \E d \in {Fail(0), Ok(0), Ok(2)}, m \in {Fail(0), Ok(0), Ok(1)} :
       InitControl("control_custom_definitions_inventory", "cmcd", CmcdWorld(d, m))

InitGtm ==
    \E c \in {Fail(0), Ok(0), Ok(2)} : InitControl("gtm_access_check", "gtm", GtmWorld(c))

Init == InitRunAudit \/ InitP01 \/ InitMvp \/ InitCmcd \/ InitGtm

W == world[idx]

\* one external call: the target it is made for, the control making it, the operation
Call(ctl, op, arg) == [t |-> idx, ctl |-> ctl, op |-> op, arg |-> arg]


ControlName(cid) ==
    CASE cid = "P-01" -> "Property profile available (metadata + retention + signals + attribution + usage + change history)"
      [] cid = "CMCD-01" -> "Custom definitions inventory (custom dimensions + custom metrics)"
      [] cid = "A-00" -> "Property reachable via Admin API"
      [] cid = "A-02" -> "Web streams present"
      [] cid = "A-03" -> "Global site tag retrievable (per web stream)"
      [] cid = "A-05" -> "Enhanced measurement settings retrievable (per web stream)"
      [] cid = "PL-01" -> "Product links present (Google Ads / BigQuery / SA360 / DV360 / Firebase)"
      [] cid = "A-08" -> "Key events configured"
      [] cid = "D-10" -> "Core events present (last N days)"
      [] cid = "RT-28" -> "Realtime activity observable"
      [] cid = "GTM-01" -> "GTM access and container inventory"

Finding(cid, sev, st, ev, rec) ==
    [client_name |-> client_name, property_id |-> property_id,
     control_id |-> cid, control_name |-> ControlName(cid),
     severity |-> sev, status |-> st, evidence |-> ev, recommendation |-> rec]

\* an exception that nothing catches: it leaves the control and run_audit
Raise(e) ==
    /\ pc' = "raised"
    /\ exc' = e

\* a caller that puts the returned list in front of what it has collected
Return_Prepend(fs, next) ==
    IF entry = "run_audit"
    THEN /\ all_findings' = fs \o all_findings
         /\ findings' = fs
         /\ pc' = next
    ELSE /\ findings' = fs
         /\ pc' = "returned"
         /\ UNCHANGED all_findings

\* `return fs` of a control: findings is the returned list, and under
\* run_audit the caller extends all_findings with it
Return(fs, next) ==
    IF entry = "run_audit"
    THEN /\ all_findings' = all_findings \o fs
         /\ findings' = fs
         /\ pc' = next
    ELSE /\ findings' = fs
         /\ pc' = "returned"
         /\ UNCHANGED all_findings

(***************************************************************************)
(* P-01: get_property_profile and control_property_profile.                *)
(***************************************************************************)
\* a base failure that is recorded but does not end the fan-out
AfterBaseFailure_Continue == "p01_account"

\* `return {"profile": profile, "diagnostics": diag}` when the base fetch failed
AfterBaseFailure == "p01_finding"

P01_GetProperty ==
    /\ pc = "p01_get_property"
    /\ calls' = Append(calls, Call("P-01", "get_property", 0))
    /\ LET r == W.p01_prop
           prop == r.v
           timeOf(v) == IF Truthy(v) THEN v ELSE PyNone
       IN IF ~r.ok
          THEN /\ profile' = [property_id |-> PyStr(property_id)]
               /\ diag' = [EmptyDiag EXCEPT !.errors = ("get_property_v1beta" :> ErrText)]
               /\ pc' = AfterBaseFailure
          ELSE /\ profile' = Update([property_id |-> PyStr(property_id)],
                                [property_name |-> prop.display_name,
                                 property_resource_name |-> prop.name,
                                 property_type |-> prop.property_type,
                                 parent |-> prop.parent,
                                 create_time |-> timeOf(prop.create_time),
                                 update_time |-> timeOf(prop.update_time),
                                 industry_category |-> prop.industry_category,
                                 time_zone |-> prop.time_zone,
                                 currency_code |-> prop.currency_code,
                                 service_level |-> prop.service_level])
               /\ diag' = EmptyDiag
               /\ pc' = "p01_account"
    /\ UNCHANGED <<out, run, first_table, entry, clients, world, idx, exc, client_name, property_id, gtm_account_id,
                   all_findings, findings, web_streams, si>>

P01_Account ==
    /\ pc = "p01_account"
    /\ LET parent == GetOr(profile, "parent", PyStr(<<>>))
       IN IF parent.k = "None"
          THEN \* None.startswith(...)
               /\ Raise("AttributeError")
               /\ UNCHANGED <<profile, diag, calls>>
          ELSE IF StartsWith(parent.s, AccountsPrefix)
          THEN /\ calls' = Append(calls, Call("P-01", "get_account", 0))
               /\ exc' = exc
               /\ pc' = "p01_retention"
               /\ IF ~W.account.ok
                  THEN /\ diag' = [diag EXCEPT !.errors = @ @@ ("get_account_v1beta" :> ErrText)]
                       /\ profile' = Update(profile, [account_id |-> PyStr(AfterSlash(parent.s)),
                                                      account_name |-> PyNone])
                  ELSE /\ diag' = diag
                       /\ profile' = Update(profile, [account_id |-> PyStr(AfterSlash(parent.s)),
                                                      account_name |-> W.account.v])
          ELSE /\ profile' = Update(profile, [account_id |-> PyNone, account_name |-> PyNone])
               /\ exc' = exc
               /\ pc' = "p01_retention"
               /\ UNCHANGED <<diag, calls>>
    /\ UNCHANGED <<out, run, first_table, entry, clients, world, idx, client_name, property_id, gtm_account_id,
                   all_findings, findings, web_streams, si>>

P01_Retention ==
    /\ pc = "p01_retention"
    /\ calls' = Append(calls, Call("P-01", "get_data_retention_settings", 0))
    /\ IF ~W.retention.ok
       THEN /\ diag' = [diag EXCEPT !.errors = @ @@ ("get_data_retention_settings_v1beta" :> ErrText)]
            /\ profile' = profile
       ELSE /\ diag' = diag
            /\ profile' = Update(profile,
                   [data_retention_duration |-> W.retention.v.retention_duration,
                    reset_user_data_on_new_activity |-> W.retention.v.reset_user_data_on_new_activity,
                    user_retention_duration |-> W.retention.v.retention_duration])
    /\ pc' = "p01_signals"
    /\ UNCHANGED <<out, run, first_table, entry, clients, world, idx, exc, client_name, property_id, gtm_account_id,
                   all_findings, findings, web_streams, si>>

P01_Signals ==
    /\ pc = "p01_signals"
    /\ calls' = Append(calls, Call("P-01", "get_google_signals_settings", 0))
    /\ IF ~W.signals.ok
       THEN /\ diag' = [diag EXCEPT !.errors = @ @@ ("get_google_signals_settings_v1alpha" :> ErrText)]
            /\ profile' = profile
       ELSE /\ diag' = diag
            /\ profile' = Update(profile, [google_signals_state |-> W.signals.v.state,
                                           google_signals_consent |-> W.signals.v.consent])
    /\ pc' = "p01_attribution"
    /\ UNCHANGED <<out, run, first_table, entry, clients, world, idx, exc, client_name, property_id, gtm_account_id,
                   all_findings, findings, web_streams, si>>

P01_Attribution ==
    /\ pc = "p01_attribution"
    /\ calls' = Append(calls, Call("P-01", "get_attribution_settings", 0))
    /\ IF ~W.attribution.ok
       THEN /\ diag' = [diag EXCEPT !.errors = @ @@ ("get_attribution_settings_v1alpha" :> ErrText)]
            /\ profile' = profile
       ELSE /\ diag' = diag
            /\ profile' = Update(profile,
                   [acquisition_event_lookback_window |-> W.attribution.v.acquisition,
                    other_conversion_event_lookback_window |-> W.attribution.v.other,
                    reporting_attribution_model |-> W.attribution.v.model])
    /\ pc' = "p01_rollup"
    /\ UNCHANGED <<out, run, first_table, entry, clients, world, idx, exc, client_name, property_id, gtm_account_id,
                   all_findings, findings, web_streams, si>>

\* The module binds _safe_list twice; the later binding, _safe_list(admin,
\* method_name, *, parent), is the one in force.  Called as _safe_list(fn,
\* request=...) it has no method_name and no such keyword: TypeError, raised
\* outside every try block and before any external call.
P01_Rollup ==
    /\ pc = "p01_rollup"
    /\ IF Get(profile, "property_type") = PyStr(<<"ROLLUP">>)
       THEN Raise("TypeError")
       ELSE /\ pc' = "p01_subproperty"
            /\ exc' = exc
    /\ UNCHANGED <<out, run, first_table, entry, clients, world, idx, client_name, property_id, gtm_account_id,
                   all_findings, findings, profile, diag, calls, web_streams, si>>

P01_Subproperty ==
    /\ pc = "p01_subproperty"
    /\ IF Get(profile, "property_type") = PyStr(<<"SUBPROPERTY">>)
       THEN Raise("TypeError")
       ELSE /\ pc' = "p01_event_count"
            /\ exc' = exc
    /\ UNCHANGED <<out, run, first_table, entry, clients, world, idx, client_name, property_id, gtm_account_id,
                   all_findings, findings, profile, diag, calls, web_streams, si>>

P01_EventCount ==
    /\ pc = "p01_event_count"
    /\ calls' = Append(calls, Call("P-01", "run_report", 0))
    /\ IF ~W.event_count.ok
       THEN /\ diag' = [diag EXCEPT !.errors = @ @@ ("data_api_eventCount_7d" :> ErrText)]
            /\ profile' = profile
       ELSE /\ diag' = diag
            /\ LET rows == W.event_count.v
                   total_events == IF rows # <<>> THEN rows[1] ELSE 0
               IN profile' = Update(profile, [number_of_events_past_7_days |-> PyInt(total_events)])
    /\ pc' = "p01_change_history"
    /\ UNCHANGED <<out, run, first_table, entry, clients, world, idx, exc, client_name, property_id, gtm_account_id,
                   all_findings, findings, web_streams, si>>

change_history_days_lookback == 90
SampleCap == 25

\* include: some change names a resource of "properties/<property_id>"
IncludeEvent(ev, pid) ==
    \E i \in 1..Len(ev.changes) :
        /\ Truthy(ev.changes[i])
        /\ Contains(ev.changes[i].s, PropertiesPrefix \o pid)

RECURSIVE FilterEvents(_, _)
FilterEvents(events, pid) ==
    IF events = <<>> THEN <<>>
    ELSE IF IncludeEvent(Head(events), pid)
         THEN <<Head(events)>> \o FilterEvents(Tail(events), pid)
         ELSE FilterEvents(Tail(events), pid)

\* evidence that keeps every matching event
Sample_Uncapped(filtered) == filtered

\* filtered[:25]
Sample(filtered) == SubSeq(filtered, 1, IF Len(filtered) < SampleCap THEN Len(filtered) ELSE SampleCap)

P01_ChangeHistory ==
    /\ pc = "p01_change_history"
    /\ IF Truthy(profile["account_id"])
       THEN /\ calls' = Append(calls, Call("P-01", "search_change_history_events", 0))
            /\ IF ~W.change_history.ok
               THEN /\ diag' = [diag EXCEPT !.errors = @ @@ ("search_change_history_events_v1alpha" :> ErrText)]
                    /\ profile' = profile
               ELSE /\ diag' = diag
                    /\ LET filtered == FilterEvents(W.change_history.v, property_id)
                       IN profile' = Update(profile,
                              [change_history_window_days |-> PyInt(change_history_days_lookback),
                               change_history_event_count |-> PyInt(Len(filtered)),
                               change_history_events_sample |-> PyList(Sample(filtered))])
       ELSE /\ profile' = Update(profile, [change_history_event_count |-> PyNone])
            /\ diag' = [diag EXCEPT !.availability = @ @@ ("change_history" :> "skipped_no_account_parent")]
            /\ calls' = calls
    /\ pc' = "p01_finding"
    /\ UNCHANGED <<out, run, first_table, entry, clients, world, idx, exc, client_name, property_id, gtm_account_id,
                   all_findings, findings, web_streams, si>>

core_fields ==
    <<"account_id", "account_name", "property_name", "property_id", "property_type", "parent",
      "create_time", "update_time", "industry_category", "time_zone", "currency_code",
      "service_level", "number_of_events_past_7_days", "google_signals_state",
      "data_retention_duration", "reset_user_data_on_new_activity",
      "acquisition_event_lookback_window", "other_conversion_event_lookback_window",
      "reporting_attribution_model">>

PresentFields(prof) ==
    LET isPresent(f) == ~IsEmptyValue(Get(prof, f))
    IN SelectSeq(core_fields, isPresent)

MissingFields(prof) ==
    LET isMissing(f) == IsEmptyValue(Get(prof, f))
    IN SelectSeq(core_fields, isMissing)

MissingTolerance == 3

\* a tolerance that excludes its own limit
P01Status_Strict(missing) == IF Len(missing) < MissingTolerance THEN "pass" ELSE "warn"

P01Status(missing) == IF Len(missing) <= MissingTolerance THEN "pass" ELSE "warn"
P01Severity(status) == IF status = "pass" THEN "info" ELSE "medium"

P01Recommendation == "If fields are missing, confirm Admin API access, required API enablement, and that the service account has Viewer access on the property (and Account for change history)."

P01_Finding ==
    /\ pc = "p01_finding"
    /\ LET present == PresentFields(profile)
           missing == MissingFields(profile)
           status == P01Status(missing)
       IN Return(<<Finding("P-01", P01Severity(status), status,
                           [present_fields |-> present, missing_fields |-> missing,
                            profile |-> profile, diagnostics |-> diag],
                           P01Recommendation)>>, "cmcd")
    /\ UNCHANGED <<out, run, first_table, entry, clients, world, idx, exc, client_name, property_id, gtm_account_id,
                   profile, diag, calls, web_streams, si>>

(***************************************************************************)
(* CMCD-01: control_custom_definitions_inventory.                          *)
(***************************************************************************)
\* a warning as soon as one of the two enumerations failed
BothFailed_Either(dims_err, mets_err) == dims_err \/ mets_err

\* `if dims_err and mets_err:`
BothFailed(dims_err, mets_err) == dims_err /\ mets_err

CMCD ==
    /\ pc = "cmcd"
    /\ calls' = calls \o <<Call("CMCD-01", "list_custom_dimensions", 0),
                           Call("CMCD-01", "list_custom_metrics", 0)>>
    /\ LET dims_err == ~W.dims.ok
           mets_err == ~W.mets.ok
           both == BothFailed(dims_err, mets_err)
       IN Return(<<Finding("CMCD-01",
                           IF both THEN "medium" ELSE "info",
                           IF both THEN "warn" ELSE "pass",
                           [custom_dimensions_count |-> IF dims_err THEN PyNone ELSE PyInt(W.dims.v),
                            custom_metrics_count |-> IF mets_err THEN PyNone ELSE PyInt(W.mets.v),
                            errors |-> [custom_dimensions |-> IF dims_err THEN ErrText ELSE "",
                                        custom_metrics |-> IF mets_err THEN ErrText ELSE ""]],
                           IF both
                           THEN "Unable to enumerate custom definitions. Confirm Admin API access and that the service account has Viewer on the property."
                           ELSE "None.")>>, "a00")
    /\ UNCHANGED <<out, run, first_table, entry, clients, world, idx, exc, client_name, property_id, gtm_account_id,
                   profile, diag, web_streams, si>>


(***************************************************************************)
(* The MVP chain: audit_ga4_property_mvp.                                  *)
(***************************************************************************)
\* a chain that records the A-00 failure and goes on to A-02
A00Failure_NoReturn(f) ==
    /\ findings' = <<f>>
    /\ pc' = "a02"
    /\ UNCHANGED all_findings

\* an A-00 failure that ends the audit of the target, GTM-01 included
A00Failure_SkipGtm(f) == Return(<<f>>, "ra_loop")

\* the except branch of A-00: record the Finding and `return findings`
A00Failure(f) == Return(<<f>>, "ra_gtm")

A00 ==
    /\ pc = "a00"
    /\ calls' = Append(calls, Call("MVP", "get_property", 0))
    /\ IF W.a00_prop.ok
       THEN /\ findings' = <<Finding("A-00", "info", "pass",
                                     [property_name |-> W.a00_prop.v.name,
                                      display_name |-> W.a00_prop.v.display_name],
                                     "None.")>>
            /\ pc' = "a02"
            /\ UNCHANGED all_findings
       ELSE A00Failure(Finding("A-00", "critical", "fail",
                               [exception_type |-> "PermissionDenied", exception_message |-> "403"],
                               "Fix authentication scopes and/or property access. Ensure you are using the numeric GA4 Property ID."))
    /\ UNCHANGED <<out, run, first_table, entry, clients, world, idx, exc, client_name, property_id, gtm_account_id,
                   profile, diag, web_streams, si>>

\* admin_list_web_streams: the WEB_DATA_STREAM streams, each named by its place in the listing
RECURSIVE WebOnly(_, _)
WebOnly(streams, from) ==
    IF streams = <<>> THEN <<>>
    ELSE LET rest == WebOnly(Tail(streams), from + 1)
         IN IF Head(streams).type_ = "WEB_DATA_STREAM"
            THEN <<[name |-> from, gst |-> Head(streams).gst, ems |-> Head(streams).ems]>> \o rest
            ELSE rest

StreamNames(streams) == [i \in 1..Len(streams) |-> streams[i].name]

\* a chain that forgets the check for an empty list of web streams
NoWebStreams_Unchecked(ws) == FALSE

\* `if not web_streams:`
NoWebStreams(ws) == ws = <<>>

\* an empty listing reported as a warning
A02EmptyFinding_Warn ==
    Finding("A-02", "high", "warn", [web_stream_count |-> 0],
            "Create at least one GA4 Web data stream for the site and implement the Google tag.")

\* the Finding of A-02 when the listing succeeded with no web stream
A02EmptyFinding ==
    Finding("A-02", "critical", "fail", [web_stream_count |-> 0],
            "Create at least one GA4 Web data stream for the site and implement the Google tag.")

A02 ==
    /\ pc = "a02"
    /\ calls' = Append(calls, Call("MVP", "list_data_streams", 0))
    /\ IF ~W.streams.ok
       THEN /\ Return(Append(findings,
                        Finding("A-02", "critical", "fail",
                                [exception_type |-> "PermissionDenied", exception_message |-> "403"],
                                "Confirm property access and correct GA4 Property ID.")),
                      "ra_gtm")
            /\ UNCHANGED <<web_streams, si>>
       ELSE LET ws == WebOnly(W.streams.v, 1)
            IN IF NoWebStreams(ws)
               THEN /\ Return(Append(findings, A02EmptyFinding), "ra_gtm")
                    /\ UNCHANGED <<web_streams, si>>
               ELSE /\ findings' = Append(findings,
                                     Finding("A-02", "info", "pass",
                                             [web_stream_count |-> Len(ws), web_streams |-> StreamNames(ws)],
                                             "None."))
                    /\ web_streams' = ws
                    /\ si' = 1
                    /\ pc' = "a03_a05"
                    /\ UNCHANGED all_findings
    /\ UNCHANGED <<out, run, first_table, entry, clients, world, idx, exc, client_name, property_id, gtm_account_id,
                   profile, diag>>

\* admin_get_global_site_tag_snippet: the snippet, or None when the lookup raises
Snippet(stream) == IF stream.gst.ok THEN stream.gst.v ELSE PyNone

\* admin_get_enhanced_measurement: TRUE for the settings mapping, FALSE for None
HasEms(stream) == stream.ems.ok

\* a test `snippet is None` in place of `not snippet`: an empty snippet passes
A03Finding_EmptyPasses(stream) ==
    LET snippet == Snippet(stream)
    IN Finding("A-03",
               IF snippet = PyNone THEN "medium" ELSE "info",
               IF snippet = PyNone THEN "warn" ELSE "pass",
               [stream_name |-> stream.name, has_snippet |-> Truthy(snippet)],
               "If missing, confirm this is a web stream and that your auth token includes Analytics Admin-compatible scopes.")

A03Finding(stream) ==
    LET snippet == Snippet(stream)
    IN Finding("A-03",
               IF ~Truthy(snippet) THEN "medium" ELSE "info",
               IF ~Truthy(snippet) THEN "warn" ELSE "pass",
               [stream_name |-> stream.name, has_snippet |-> Truthy(snippet)],
               "If missing, confirm this is a web stream and that your auth token includes Analytics Admin-compatible scopes.")

A05Finding(stream) ==
    Finding("A-05",
            IF ~HasEms(stream) THEN "medium" ELSE "info",
            IF ~HasEms(stream) THEN "warn" ELSE "pass",
            [stream_name |-> stream.name, enhanced_measurement |-> HasEms(stream)],
            "Review enhanced measurement toggles against measurement strategy (and confirm consent impacts).")

\* a loop that drops the A-05 Finding when the settings lookup failed
PerStreamFindings_SkipFailed(stream) ==
    IF HasEms(stream) THEN <<A03Finding(stream), A05Finding(stream)>> ELSE <<A03Finding(stream)>>

\* the two Findings of one web stream
PerStreamFindings(stream) == <<A03Finding(stream), A05Finding(stream)>>

\* the key-events block placed ahead of the product-links block
ChainAfter_KeyEventsFirst ==
    [streams |-> "a08", a08 |-> "pl01", pl01 |-> "d10"]

\* the blocks of audit_ga4_property_mvp that follow the stream loop, in the
\* order the function body has them: each block names the one after it
ChainAfter ==
    [streams |-> "pl01", pl01 |-> "a08", a08 |-> "d10"]

\* one round of `for s in web_streams`
A03_A05 ==
    /\ pc = "a03_a05"
    /\ si <= Len(web_streams)
    /\ LET s == web_streams[si]
       IN /\ calls' = calls \o <<Call("MVP", "get_global_site_tag", s.name),
                                 Call("MVP", "get_enhanced_measurement_settings", s.name)>>
          /\ findings' = findings \o PerStreamFindings(s)
    /\ si' = si + 1
    /\ pc' = IF si = Len(web_streams) THEN ChainAfter["streams"] ELSE "a03_a05"
    /\ UNCHANGED <<out, run, first_table, entry, clients, world, idx, exc, client_name, property_id, gtm_account_id,
                   all_findings, profile, diag, web_streams>>

\* a failed listing reported as an empty one
SafeList_FailureIsEmpty(answer) ==
    IF ~answer.has
    THEN [available |-> FALSE, count |-> PyNone, error |-> "Method not available"]
    ELSE [available |-> TRUE, count |-> PyInt(IF answer.ok THEN answer.v ELSE 0), error |-> ""]

\* _safe_list(admin, method_name, parent=...): {available, count, error}
SafeList(answer) ==
    IF ~answer.has
    THEN [available |-> FALSE, count |-> PyNone, error |-> "Method not available"]
    ELSE IF answer.ok
         THEN [available |-> TRUE, count |-> PyInt(answer.v), error |-> ""]
         ELSE [available |-> TRUE, count |-> PyNone, error |-> ErrText]

\* admin_get_product_links_snapshot: snapshot["links"]
Snapshot(links) == [l \in LinkLabelSet |-> SafeList(links[l])]

\* the listings that the snapshot calls, in the order of the checks mapping
RECURSIVE LinkCalls(_, _)
LinkCalls(links, i) ==
    IF i > Len(LinkLabels) THEN <<>>
    ELSE (IF links[LinkLabels[i]].has
          THEN <<Call("MVP", LinkMethod(LinkLabels[i]), 0)>>
          ELSE <<>>) \o LinkCalls(links, i + 1)

\* link_counts: the entries whose count is not None
LinkCounts(pl) ==
    LET counted == {l \in LinkLabelSet : pl[l].count # PyNone}
    IN [l \in counted |-> pl[l].count.n]

RECURSIVE SumCounts(_, _)
SumCounts(counts, i) ==
    IF i > Len(LinkLabels) THEN 0
    ELSE (IF LinkLabels[i] \in DOMAIN counts THEN counts[LinkLabels[i]] ELSE 0)
         + SumCounts(counts, i + 1)

AnyEnumerated(pl) == \E l \in LinkLabelSet : pl[l].count # PyNone

PL01Finding(pl) ==
    LET link_counts == LinkCounts(pl)
        total_links == SumCounts(link_counts, 1)
    IN IF ~AnyEnumerated(pl)
       THEN Finding("PL-01", "medium", "warn", [product_links |-> pl],
                    "Unable to enumerate product links via Admin API in this environment. Verify API enablement, permissions, and library version.")
       ELSE Finding("PL-01",
                    IF total_links > 0 THEN "info" ELSE "medium",
                    IF total_links > 0 THEN "pass" ELSE "warn",
                    [total_links |-> total_links, link_counts |-> link_counts, details |-> pl],
                    "If no product links are present, consider linking relevant platforms (e.g., Google Ads, BigQuery, DV360/SA360, Firebase) to improve activation and governance.")

\* The snapshot absorbs every failure of a listing, so the except branch of
\* PL-01 (lines 763-770) has no call that can reach it.
PL01 ==
    /\ pc = "pl01"
    /\ calls' = calls \o LinkCalls(W.links, 1)
    /\ findings' = Append(findings, PL01Finding(Snapshot(W.links)))
    /\ pc' = ChainAfter["pl01"]
    /\ UNCHANGED <<out, run, first_table, entry, clients, world, idx, exc, client_name, property_id, gtm_account_id,
                   all_findings, profile, diag, web_streams, si>>

\* an empty listing of key events taken for a configured property
A08Finding_ZeroPasses(answer) ==
    IF answer.ok
    THEN Finding("A-08", "info", "pass", [key_event_count |-> answer.v],
                 "Define key events for priority actions (or document rationale if none are needed).")
    ELSE Finding("A-08", "high", "warn",
                 [exception_type |-> "PermissionDenied", exception_message |-> "403"],
                 "Verify GA Admin permissions for conversion events.")

A08Finding(answer) ==
    IF answer.ok
    THEN Finding("A-08",
                 IF answer.v = 0 THEN "high" ELSE "info",
                 IF answer.v = 0 THEN "warn" ELSE "pass",
                 [key_event_count |-> answer.v],
                 "Define key events for priority actions (or document rationale if none are needed).")
    ELSE Finding("A-08", "high", "warn",
                 [exception_type |-> "PermissionDenied", exception_message |-> "403"],
                 "Verify GA Admin permissions for conversion events.")

A08 ==
    /\ pc = "a08"
    /\ calls' = Append(calls, Call("MVP", "list_conversion_events", 0))
    /\ findings' = Append(findings, A08Finding(W.key_events))
    /\ pc' = ChainAfter["a08"]
    /\ UNCHANGED <<out, run, first_table, entry, clients, world, idx, exc, client_name, property_id, gtm_account_id,
                   all_findings, profile, diag, web_streams, si>>

\* expected_core in sorted order
expected_core == <<"page_view", "session_start">>

Observed(rows) == {rows[i] : i \in 1..Len(rows)}

\* the core events that were observed, taken for the missing ones
MissingCore_Intersection(observed) ==
    LET seen(name) == name \in observed
    IN SelectSeq(expected_core, seen)

\* sorted(list(expected_core - observed))
MissingCore(observed) ==
    LET absent(name) == name \notin observed
    IN SelectSeq(expected_core, absent)

days_lookback == 30

\* the rows of the report: the first `limit` of the property's rows
data_top_events(answer, limit) ==
    IF answer.ok
    THEN Ok(SubSeq(answer.v, 1, IF Len(answer.v) < limit THEN Len(answer.v) ELSE limit))
    ELSE answer

\* a failed report recorded as a skipped control of low severity
D10Finding_FailureSkips(answer) ==
    IF answer.ok
    THEN LET missing == MissingCore(Observed(answer.v))
         IN Finding("D-10",
                    IF missing # <<>> THEN "high" ELSE "info",
                    IF missing # <<>> THEN "fail" ELSE "pass",
                    [window_days |-> days_lookback, missing_core |-> missing,
                     top_events |-> SubSeq(answer.v, 1, IF Len(answer.v) < 25 THEN Len(answer.v) ELSE 25)],
                    "If core events are missing, verify tag deployment, consent behavior, filters, and stream selection.")
    ELSE Finding("D-10", "low", "skip",
                 [exception_type |-> "PermissionDenied", exception_message |-> "403"],
                 "Verify GA Data API access to the property.")

D10Finding(answer) ==
    IF answer.ok
    THEN LET missing == MissingCore(Observed(answer.v))
         IN Finding("D-10",
                    IF missing # <<>> THEN "high" ELSE "info",
                    IF missing # <<>> THEN "fail" ELSE "pass",
                    [window_days |-> days_lookback, missing_core |-> missing,
                     top_events |-> SubSeq(answer.v, 1, IF Len(answer.v) < 25 THEN Len(answer.v) ELSE 25)],
                    "If core events are missing, verify tag deployment, consent behavior, filters, and stream selection.")
    ELSE Finding("D-10", "high", "warn",
                 [exception_type |-> "PermissionDenied", exception_message |-> "403"],
                 "Verify GA Data API access to the property.")

D10 ==
    /\ pc = "d10"
    /\ calls' = Append(calls, Call("MVP", "run_report", 0))
    /\ findings' = Append(findings, D10Finding(data_top_events(W.top_events, TopEventsLimit)))
    /\ pc' = "rt28"
    /\ UNCHANGED <<out, run, first_table, entry, clients, world, idx, exc, client_name, property_id, gtm_account_id,
                   all_findings, profile, diag, web_streams, si>>

\* a realtime report without events taken for observed activity
RT28Finding_EmptyPasses(answer) ==
    IF answer.ok
    THEN Finding("RT-28", "medium", "pass",
                 [realtime_events |-> answer.v, total_eventCount |-> SumSeq(answer.v)],
                 "If empty, run a controlled test and re-check; review consent blocking.")
    ELSE Finding("RT-28", "medium", "warn",
                 [exception_type |-> "PermissionDenied", exception_message |-> "403"],
                 "Verify realtime reporting is available and permissions are sufficient.")

RT28Finding(answer) ==
    IF answer.ok
    THEN LET total == SumSeq(answer.v)
         IN Finding("RT-28", "medium", IF total > 0 THEN "pass" ELSE "warn",
                    [realtime_events |-> answer.v, total_eventCount |-> total],
                    "If empty, run a controlled test and re-check; review consent blocking.")
    ELSE Finding("RT-28", "medium", "warn",
                 [exception_type |-> "PermissionDenied", exception_message |-> "403"],
                 "Verify realtime reporting is available and permissions are sufficient.")

\* RT-28 and `return findings`
RT28 ==
    /\ pc = "rt28"
    /\ calls' = Append(calls, Call("MVP", "run_realtime_report", 0))
    /\ Return(Append(findings, RT28Finding(W.realtime)), "ra_gtm")
    /\ UNCHANGED <<out, run, first_table, entry, clients, world, idx, exc, client_name, property_id, gtm_account_id,
                   profile, diag, web_streams, si>>

(***************************************************************************)
(* GTM-01: gtm_access_check.                                               *)
(***************************************************************************)
GtmAccessCheck ==
    /\ pc = "gtm"
    /\ calls' = Append(calls, Call("GTM-01", "containers.list", 0))
    /\ Return(<<IF W.containers.ok
                THEN Finding("GTM-01", "info", "pass",
                             [gtm_account_id |-> gtm_account_id, container_count |-> W.containers.v],
                             "None.")
                ELSE Finding("GTM-01", "medium", "warn",
                             [gtm_account_id |-> gtm_account_id,
                              exception_type |-> "HttpError", exception_message |-> "403"],
                             "Grant read access to GTM account/container or provide the correct GTM account ID.")>>,
              "ra_loop")
    /\ UNCHANGED <<out, run, first_table, entry, clients, world, idx, exc, client_name, property_id, gtm_account_id,
                   profile, diag, web_streams, si>>

(***************************************************************************)
(* The batch runner: run_audit.                                            *)
(***************************************************************************)
\* a loop that audits every target of the list
Skipped_Never(pid) == FALSE

\* `if not property_id: continue`
Skipped(pid) == pid = <<>>

\* the head of `for c in clients`: bind the next target, skip it when its id is blank
RA_NextTarget ==
    /\ pc = "ra_loop"
    /\ idx < Len(clients)
    /\ idx' = idx + 1
    /\ client_name' = NormName(clients[idx + 1].client_name)
    /\ property_id' = NormId(clients[idx + 1].property_id)
    /\ gtm_account_id' = NormId(clients[idx + 1].gtm_account_id)
    /\ pc' = IF Skipped(NormId(clients[idx + 1].property_id)) THEN "ra_loop" ELSE "p01_get_property"
    /\ UNCHANGED <<out, run, first_table, entry, clients, world, exc, all_findings, findings, profile, diag, calls,
                   web_streams, si>>

\* `if gtm_account_id:` after the MVP chain
RA_GtmCheck ==
    /\ pc = "ra_gtm"
    /\ pc' = IF gtm_account_id # <<>> THEN "gtm" ELSE "ra_loop"
    /\ UNCHANGED <<out, run, first_table, entry, clients, world, idx, exc, client_name, property_id, gtm_account_id,
                   all_findings, findings, profile, diag, calls, web_streams, si>>

\* the loop is exhausted: return findings_to_df(all_findings)
RA_Return ==
    /\ pc = "ra_loop"
    /\ idx = Len(clients)
    /\ pc' = "returned"
    /\ UNCHANGED <<out, run, first_table, entry, clients, world, idx, exc, client_name, property_id, gtm_account_id,
                   all_findings, findings, profile, diag, calls, web_streams, si>>

\* a list of findings that outlives the invocation that filled it
FreshList_Shared(previous) == previous

\* `all_findings: List[Finding] = []` at the start of every invocation
FreshList(previous) == <<>>

\* run_audit is invoked a second time, on the same list and against the same
\* external answers; first_table keeps the table the first invocation returned
RA_Again ==
    /\ entry = "run_audit"
    /\ pc = "returned"
    /\ run = 1
    /\ out = NoOutput
    /\ run' = 2
    /\ first_table' = all_findings
    /\ all_findings' = FreshList(all_findings)
    /\ calls' = <<>>
    /\ idx' = 0
    /\ pc' = "ra_loop"
    /\ UNCHANGED <<entry, clients, world, exc, client_name, property_id, gtm_account_id,
                   findings, profile, diag, web_streams, si, out>>

(***************************************************************************)
(* Downstream of the findings table: get_profile_from_p01 and              *)
(* generate_property_audit_deck_from_results.                              *)
(***************************************************************************)
\* a lookup that takes the first P-01 row whatever its property id
ProfileRows_AnyProperty(table, pid) ==
    LET isP01(row) == row.control_id = "P-01"
    IN SelectSeq(table, isP01)

\* results_df[(control_id == "P-01") & (property_id.astype(str) == str(property_id))]
ProfileRows(table, pid) ==
    LET isRow(row) == row.control_id = "P-01" /\ row.property_id = pid
    IN SelectSeq(table, isRow)

\* get_profile_from_p01: the profile of the first matching row, or ValueError
GetProfileFromP01(table, pid) ==
    LET subset == ProfileRows(table, pid)
    IN IF subset = <<>>
       THEN [raised |-> "ValueError", profile |-> EmptyDict]
       ELSE LET prof == subset[1].evidence.profile
            IN IF DOMAIN prof = {}
               THEN [raised |-> "ValueError", profile |-> EmptyDict]
               ELSE [raised |-> "", profile |-> prof]

\* the dates date.today() is drawn from
Dates == {[year |-> 2026, month |-> 11, day |-> 3], [year |-> 2024, month |-> 2, day |-> 29]}

DigitChars == <<"0", "1", "2", "3", "4", "5", "6", "7", "8", "9">>

\* the decimal digits of n, zero-padded to the width w
RECURSIVE Digits(_, _)
Digits(n, w) == IF w = 0 THEN <<>> ELSE Append(Digits(n \div 10, w - 1), DigitChars[(n % 10) + 1])

\* date.isoformat(): YYYY-MM-DD
IsoFormat(d) == Digits(d.year, 4) \o <<"-">> \o Digits(d.month, 2) \o <<"-">> \o Digits(d.day, 2)

\* `profile.get(key) or default`
GetText(prof, key, default) == IF Truthy(Get(prof, key)) THEN Get(prof, key).s ELSE default

\* a name that leaves the date out
DeckName_NoDate(prop_id, today) == <<"GA4 Audit Property ">> \o prop_id

\* f"GA4 Audit Property {prop_id} {today}"
DeckName(prop_id, today) == <<"GA4 Audit Property ">> \o prop_id \o <<" ">> \o IsoFormat(today)

\* the replacements handed to replace_placeholders_in_slides
Replacements(prof, pid) ==
    [ph \in {"{{ACCOUNT_NAME}}", "{{PROPERTY_NAME}}", "{{PROPERTY_ID}}"} |->
        CASE ph = "{{ACCOUNT_NAME}}" -> GetText(prof, "account_name", <<"Unknown Account">>)
          [] ph = "{{PROPERTY_NAME}}" -> GetText(prof, "property_name", <<"Unknown Property">>)
          [] ph = "{{PROPERTY_ID}}" -> GetText(prof, "property_id", pid)]

\* the property ids the downstream functions are called with: those of the
\* audited targets and one that no target has
LookupIds ==
    ({NormId(clients[i].property_id) : i \in 1..Len(clients)} \ {<<>>})
    \cup {clients[i].property_id.s : i \in {j \in 1..Len(clients) : Truthy(clients[j].property_id)}}
    \cup {<<"9">>}

\* get_profile_from_p01(results_df, pid) on the table run_audit returned
GetProfile ==
    /\ entry = "run_audit"
    /\ pc = "returned"
    /\ out = NoOutput
    /\ \E pid \in LookupIds :
          LET r == GetProfileFromP01(all_findings, pid)
          IN out' = [fn |-> "get_profile_from_p01", pid |-> pid,
                     raised |-> r.raised, profile |-> r.profile]
    /\ UNCHANGED <<run, first_table, entry, clients, world, idx, pc, exc, client_name,
                   property_id, gtm_account_id, all_findings, findings, profile, diag, calls,
                   web_streams, si>>

\* generate_property_audit_deck_from_results(results_df=..., property_id=pid, ...)
GenerateDeck ==
    /\ entry = "run_audit"
    /\ pc = "returned"
    /\ out = NoOutput
    /\ \E pid \in LookupIds, today \in Dates :
          LET r == GetProfileFromP01(all_findings, pid)
          IN out' = IF r.raised # ""
                    THEN [fn |-> "generate_property_audit_deck_from_results", pid |-> pid,
                          today |-> today, raised |-> r.raised]
                    ELSE [fn |-> "generate_property_audit_deck_from_results", pid |-> pid,
                          today |-> today, raised |-> "",
                          new_name |-> DeckName(GetText(r.profile, "property_id", pid), today),
                          replacements |-> Replacements(r.profile, pid)]
    /\ UNCHANGED <<run, first_table, entry, clients, world, idx, pc, exc, client_name,
                   property_id, gtm_account_id, all_findings, findings, profile, diag, calls,
                   web_streams, si>>

Next ==
    \/ P01_GetProperty
    \/ P01_Account
    \/ P01_Retention
    \/ P01_Signals
    \/ P01_Attribution
    \/ P01_Rollup
    \/ P01_Subproperty
    \/ P01_EventCount
    \/ P01_ChangeHistory
    \/ P01_Finding
    \/ CMCD
    \/ A00
    \/ A02
    \/ A03_A05
    \/ PL01
    \/ A08
    \/ D10
    \/ RT28
    \/ GtmAccessCheck
    \/ RA_NextTarget
    \/ RA_GtmCheck
    \/ RA_Return
    \/ RA_Again
    \/ GetProfile
    \/ GenerateDeck

Spec == Init /\ [][Next]_vars

\* the scheduling of a sequential program: a step that can be taken is taken
FairSpec == Spec /\ WF_vars(Next)


(***************************************************************************)
(* Vocabulary of the properties.                                           *)
(***************************************************************************)
\* the step in which the MVP chain returns its findings
MvpReturns == pc \in {"a00", "a02", "rt28"} /\ pc' \in {"ra_gtm", "returned"}

\* the step in which control_property_profile returns its findings
P01Returns == pc = "p01_finding" /\ pc' \in {"cmcd", "returned"}

\* the list a control has just returned (under run_audit: what all_findings gained)
Returned ==
    IF entry = "run_audit"
    THEN SubSeq(all_findings', Len(all_findings) + 1, Len(all_findings'))
    ELSE findings'

IdsOf(fs) == [i \in 1..Len(fs) |-> fs[i].control_id]

CountOf(fs, ids) == Cardinality({i \in 1..Len(fs) : fs[i].control_id \in ids})

Is(f, cid, sev, st) == f.control_id = cid /\ f.severity = sev /\ f.status = st

\* the operations a control has called for a target, in order
RECURSIVE OpsOf(_, _, _)
OpsOf(cs, t, ctl) ==
    IF cs = <<>> THEN <<>>
    ELSE (IF Head(cs).t = t /\ Head(cs).ctl = ctl THEN <<Head(cs).op>> ELSE <<>>)
         \o OpsOf(Tail(cs), t, ctl)

LaterControls == {"A-02", "A-03", "A-05", "A-08", "D-10", "RT-28", "PL-01"}

\* the web streams of the stubbed listing, by their place in it
WebPlaces(streams) == {i \in 1..Len(streams) : streams[i].type_ = "WEB_DATA_STREAM"}

RECURSIVE SumOver(_, _)
SumOver(S, f) ==
    IF S = {} THEN 0
    ELSE LET x == CHOOSE y \in S : TRUE IN f[x] + SumOver(S \ {x}, f)

(***************************************************************************)
(* C1: when the get-property call of A-00 fails, the chain returns exactly *)
(* one Finding, A-00 critical/fail, no Finding of a later control, and the *)
(* chain has made no external call but get-property.                       *)
(***************************************************************************)
C1_A00FailureReturnsOneFinding ==
    [][(MvpReturns /\ ~W.a00_prop.ok) =>
          /\ Len(Returned) = 1
          /\ Is(Returned[1], "A-00", "critical", "fail")
          /\ CountOf(Returned, LaterControls) = 0
          /\ OpsOf(calls', idx, "MVP") = <<"get_property">>]_vars

C1_Witness ==
    /\ entry = "run_audit"
    /\ pc = "ra_gtm"
    /\ ~W.a00_prop.ok
    /\ Len(all_findings) >= 3
    /\ Is(Last(all_findings), "A-00", "critical", "fail")

(***************************************************************************)
(* C2: with A-00 passed, a web-stream listing that fails or has no web     *)
(* stream gives A-02 critical/fail as the last Finding of the chain and    *)
(* the chain returns at once; a listing with a web stream gives A-02       *)
(* info/pass and the chain goes on to the later controls.                  *)
(***************************************************************************)
C2_A02StopsOrContinues ==
    [][(pc = "a02") =>
          IF ~W.streams.ok \/ WebPlaces(W.streams.v) = {}
          THEN /\ MvpReturns
               /\ IdsOf(Returned) = <<"A-00", "A-02">>
               /\ Is(Last(Returned), "A-02", "critical", "fail")
               /\ CountOf(Returned, LaterControls \ {"A-02"}) = 0
               /\ OpsOf(calls', idx, "MVP") = <<"get_property", "list_data_streams">>
          ELSE /\ ~MvpReturns
               /\ pc' = "a03_a05"
               /\ IdsOf(findings') = <<"A-00", "A-02">>
               /\ Is(Last(findings'), "A-02", "info", "pass")]_vars

\* a stopped chain: the listing failed, A-02 critical/fail is the last Finding
C2_Witness ==
    /\ entry = "audit_ga4_property_mvp"
    /\ pc = "returned"
    /\ W.a00_prop.ok
    /\ ~W.streams.ok
    /\ Is(Last(findings), "A-02", "critical", "fail")

(***************************************************************************)
(* C3 as stated: a listing that succeeds with zero web streams makes the   *)
(* chain yield exactly one Finding, and it is critical/fail.               *)
(***************************************************************************)
C3_Original ==
    [][(MvpReturns /\ W.a00_prop.ok /\ W.streams.ok /\ WebPlaces(W.streams.v) = {}) =>
          /\ Len(Returned) = 1
          /\ Returned[1].severity = "critical"
          /\ Returned[1].status = "fail"]_vars

(***************************************************************************)
(* C3 amended: a listing that succeeds with zero web streams makes the     *)
(* chain yield exactly two Findings, the A-00 info/pass Finding and then   *)
(* one A-02 Finding with web_stream_count 0, which is the only             *)
(* critical/fail Finding of the chain.                                     *)
(***************************************************************************)
C3_ZeroStreamsTwoFindings ==
    [][(MvpReturns /\ W.a00_prop.ok /\ W.streams.ok /\ WebPlaces(W.streams.v) = {}) =>
          /\ Len(Returned) = 2
          /\ Is(Returned[1], "A-00", "info", "pass")
          /\ Is(Returned[2], "A-02", "critical", "fail")
          /\ Returned[2].evidence = [web_stream_count |-> 0]]_vars

\* the listing answered, but only with streams that are not web streams
C3_Witness ==
    /\ pc \in {"ra_gtm", "returned"}
    /\ pc = "returned" => entry = "audit_ga4_property_mvp"
    /\ W.a00_prop.ok
    /\ W.streams.ok
    /\ W.streams.v # <<>>
    /\ WebPlaces(W.streams.v) = {}
    /\ LET fs == IF entry = "run_audit" THEN all_findings ELSE findings
       IN Is(Last(fs), "A-02", "critical", "fail")


\* the k-th smallest place of a set of places
NthPlace(S, k) == CHOOSE x \in S : Cardinality({y \in S : y < x}) = k - 1

(***************************************************************************)
(* C4: with a reachable property and N >= 1 web streams the chain emits    *)
(* exactly 2*N per-stream Findings: for each web stream, in the order of   *)
(* the listing, one A-03 directly followed by one A-05, both naming that   *)
(* stream, whatever the per-stream lookups answer.                         *)
(***************************************************************************)
C4_TwoFindingsPerStream ==
    [][(MvpReturns /\ W.a00_prop.ok /\ W.streams.ok /\ WebPlaces(W.streams.v) # {}) =>
          LET places == WebPlaces(W.streams.v)
              N == Cardinality(places)
          IN /\ CountOf(Returned, {"A-03", "A-05"}) = 2 * N
             /\ Len(Returned) >= 2 + 2 * N
             /\ \A k \in 1..N :
                   /\ Returned[2 * k + 1].control_id = "A-03"
                   /\ Returned[2 * k + 1].evidence.stream_name = NthPlace(places, k)
                   /\ Returned[2 * k + 2].control_id = "A-05"
                   /\ Returned[2 * k + 2].evidence.stream_name = NthPlace(places, k)]_vars

\* two web streams behind a stream of another type, every per-stream lookup failing
C4_Witness ==
    /\ entry = "audit_ga4_property_mvp"
    /\ pc = "returned"
    /\ W.streams.ok
    /\ Cardinality(WebPlaces(W.streams.v)) = 2
    /\ \A i \in WebPlaces(W.streams.v) : ~W.streams.v[i].gst.ok /\ ~W.streams.v[i].ems.ok
    /\ CountOf(findings, {"A-03", "A-05"}) = 4

(***************************************************************************)
(* C5: when the report call succeeds, missing_core of D-10 is the sorted   *)
(* list of {page_view, session_start} minus the observed names, and D-10   *)
(* is high/fail when it is non-empty and info/pass when it is empty        *)
(* (observed {page_view}: fail with [session_start]); when the report call *)
(* fails D-10 is high/warn.                                                *)
(***************************************************************************)
C5_D10Outcome ==
    (pc = "rt28") =>
       LET f == Last(findings)
           r == data_top_events(W.top_events, TopEventsLimit)
           obs == {r.v[i] : i \in 1..Len(r.v)}
           miss == {"page_view", "session_start"} \ obs
       IN /\ f.control_id = "D-10"
          /\ CountOf(findings, {"D-10"}) = 1
          /\ IF r.ok
             THEN LET mc == f.evidence.missing_core
                  IN /\ {mc[i] : i \in 1..Len(mc)} = miss
                     /\ Len(mc) = Cardinality(miss)
                     /\ Len(mc) = 2 => mc = <<"page_view", "session_start">>
                     /\ miss # {} => f.severity = "high" /\ f.status = "fail"
                     /\ miss = {} => f.severity = "info" /\ f.status = "pass"
                     /\ obs = {"page_view"} => f.status = "fail" /\ mc = <<"session_start">>
             ELSE f.severity = "high" /\ f.status = "warn"

\* the report answered with page_view rows only
C5_Witness ==
    /\ pc = "rt28"
    /\ W.top_events.ok
    /\ {W.top_events.v[i] : i \in 1..Len(W.top_events.v)} = {"page_view"}
    /\ Last(findings).status = "fail"
    /\ Last(findings).evidence.missing_core = <<"session_start">>

(***************************************************************************)
(* C6: PL-01 emits exactly one Finding.  With no link enumeration          *)
(* succeeding it is medium/warn with the 'unable to enumerate'             *)
(* recommendation; with one succeeding and a total of 0 over the           *)
(* successful ones it is medium/warn; with a total > 0 it is info/pass.  A *)
(* failed enumeration adds nothing to the total and every enumeration the  *)
(* client offers is called.                                                *)
(***************************************************************************)
C6_PL01Outcome ==
    (pc = "a08") =>
       LET f == Last(findings)
           succeeded == {l \in LinkLabelSet : W.links[l].has /\ W.links[l].ok}
           total == SumOver(succeeded, [l \in LinkLabelSet |-> W.links[l].v])
           ops == OpsOf(calls, idx, "MVP")
       IN /\ f.control_id = "PL-01"
          /\ CountOf(findings, {"PL-01"}) = 1
          /\ succeeded = {} =>
                /\ f.severity = "medium" /\ f.status = "warn"
                /\ f.recommendation = "Unable to enumerate product links via Admin API in this environment. Verify API enablement, permissions, and library version."
          /\ (succeeded # {} /\ total = 0) => f.severity = "medium" /\ f.status = "warn"
          /\ total > 0 => f.severity = "info" /\ f.status = "pass"
          /\ succeeded # {} =>
                /\ f.evidence.total_links = total
                /\ DOMAIN f.evidence.link_counts = succeeded
          /\ \A l \in LinkLabelSet :
                Cardinality({i \in 1..Len(ops) : ops[i] = LinkMethod(l)})
                    = IF W.links[l].has THEN 1 ELSE 0

\* a failing and an absent enumeration next to a successful one that found links
C6_Witness ==
    /\ pc = "a08"
    /\ \E l \in LinkLabelSet : W.links[l].has /\ ~W.links[l].ok
    /\ \E l \in LinkLabelSet : ~W.links[l].has
    /\ \E l \in LinkLabelSet : W.links[l].has /\ W.links[l].ok /\ W.links[l].v > 0
    /\ Last(findings).control_id = "PL-01"
    /\ Last(findings).status = "pass"

(***************************************************************************)
(* C7: P-01 is info/pass exactly when at most 3 of the core fields are     *)
(* missing from the profile (absent, None, empty string or empty list) and *)
(* medium/warn when 4 or more are; a field holding 0 or false is present.  *)
(***************************************************************************)
C7_CompletenessPolicy ==
    [][P01Returns =>
          LET f == Returned[1]
              prof == f.evidence.profile
              isMissing(key) ==
                  \/ key \notin DOMAIN prof
                  \/ prof[key].k = "None"
                  \/ prof[key].k = "str" /\ prof[key].s = <<>>
                  \/ prof[key].k = "list" /\ prof[key].s = <<>>
              m == Cardinality({i \in 1..Len(core_fields) : isMissing(core_fields[i])})
          IN /\ Len(Returned) = 1
             /\ f.control_id = "P-01"
             /\ Len(f.evidence.missing_fields) = m
             /\ m <= 3 => f.status = "pass" /\ f.severity = "info"
             /\ m >= 4 => f.status = "warn" /\ f.severity = "medium"]_vars

\* exactly three fields missing, next to an event count of 0 and a reset flag of false
C7_Witness ==
    /\ entry = "control_property_profile"
    /\ pc = "returned"
    /\ Len(findings[1].evidence.missing_fields) = 3
    /\ findings[1].status = "pass"
    /\ Get(profile, "number_of_events_past_7_days") = PyInt(0)
    /\ Get(profile, "reset_user_data_on_new_activity") = PyBool(FALSE)

(***************************************************************************)
(* C8: when the base get-property call of P-01 fails, the profile is       *)
(* {property_id: <id>} and nothing else, diagnostics.errors holds the      *)
(* get-property error only, no secondary sub-fetch is attempted, and the   *)
(* control still returns exactly one P-01 Finding, medium/warn, with every *)
(* core field but property_id missing.                                     *)
(***************************************************************************)
C8_BaseFetchFailure ==
    [][/\ (pc = "p01_get_property" /\ ~W.p01_prop.ok) => pc' = "p01_finding"
       /\ (P01Returns /\ ~W.p01_prop.ok) =>
             LET f == Returned[1]
                 mf == f.evidence.missing_fields
             IN /\ Len(Returned) = 1
                /\ Is(f, "P-01", "medium", "warn")
                /\ f.evidence.profile = [property_id |-> PyStr(property_id)]
                /\ DOMAIN f.evidence.diagnostics.errors = {"get_property_v1beta"}
                /\ OpsOf(calls, idx, "P-01") = <<"get_property">>
                /\ {mf[i] : i \in 1..Len(mf)}
                      = {core_fields[i] : i \in 1..Len(core_fields)} \ {"property_id"}]_vars

C8_Witness ==
    /\ entry = "control_property_profile"
    /\ pc = "returned"
    /\ ~W.p01_prop.ok
    /\ W.retention.ok
    /\ findings[1].evidence.profile = [property_id |-> PyStr(<<"1">>)]
    /\ findings[1].status = "warn"

(***************************************************************************)
(* C9 as stated: no error of an external call or of a fetched value leaves *)
(* a control; each control returns its list of Findings and run_audit      *)
(* returns a table.                                                        *)
(***************************************************************************)
C9_NoErrorEscapes == pc # "raised" /\ exc = ""

(***************************************************************************)
(* C10 as stated: run_audit never stops early; when it has stopped, every  *)
(* target with a non-blank property id has a P-01 and a CMCD-01 Finding in *)
(* the output.                                                             *)
(***************************************************************************)
C10_EveryTargetProcessed ==
    (entry = "run_audit" /\ pc \in {"returned", "raised"}) =>
       LET audited == {i \in 1..Len(clients) : NormId(clients[i].property_id) # <<>>}
       IN /\ pc = "returned"
          /\ CountOf(all_findings, {"P-01"}) = Cardinality(audited)
          /\ CountOf(all_findings, {"CMCD-01"}) = Cardinality(audited)
          /\ \A i \in audited :
                \A cid \in {"P-01", "CMCD-01"} :
                   \E j \in 1..Len(all_findings) :
                      /\ all_findings[j].control_id = cid
                      /\ all_findings[j].property_id = NormId(clients[i].property_id)

\* the targets run_audit does not skip, among the first n of the list
Audited(n) == {i \in 1..n : NormId(clients[i].property_id) # <<>>}

\* the place of a control in the sequence of run_audit
ControlRank(cid) ==
    CASE cid = "P-01" -> 1
      [] cid = "CMCD-01" -> 2
      [] cid = "GTM-01" -> 4
      [] OTHER -> 3

\* how many Findings of the control are among the first j of the list
CountUpTo(fs, j, cid) == Cardinality({i \in 1..j : fs[i].control_id = cid})

(***************************************************************************)
(* C11: run_audit accumulates findings in target order and, within a       *)
(* target, in control order.  The accumulated list is a sequence of        *)
(* segments, one per audited target in the order of the list: the k-th     *)
(* segment starts with the P-01 Finding of the k-th audited target, every  *)
(* Finding in it carries that target's name and id, CMCD-01 follows P-01   *)
(* directly, then come the Findings of the MVP chain, and a GTM-01 Finding *)
(* is the last of its segment.                                             *)
(***************************************************************************)
C11_TargetThenControlOrder ==
    (entry = "run_audit") =>
       LET af == all_findings
       IN /\ af # <<>> => af[1].control_id = "P-01"
          /\ CountUpTo(af, Len(af), "P-01") <= Cardinality(Audited(idx))
          /\ \A j \in 1..Len(af) :
                LET k == CountUpTo(af, j, "P-01")
                    t == NthPlace(Audited(Len(clients)), k)
                IN /\ t <= idx
                   /\ af[j].property_id = NormId(clients[t].property_id)
                   /\ af[j].client_name = NormName(clients[t].client_name)
          /\ \A j \in 2..Len(af) :
                LET before == ControlRank(af[j - 1].control_id)
                    here == ControlRank(af[j].control_id)
                IN /\ here = 1 => before \in {3, 4}
                   /\ here = 2 => before = 1
                   /\ here = 3 => before \in {2, 3}
                   /\ here = 4 => before = 3
                   /\ before = 1 => here = 2
                   /\ before = 2 => af[j].control_id = "A-00"
                   /\ before = 4 => here = 1

\* two audited targets, the first with a GTM-01 Finding, behind it the second's
C11_Witness ==
    /\ entry = "run_audit"
    /\ pc = "returned"
    /\ Len(clients) = 2
    /\ NormId(clients[1].property_id) # NormId(clients[2].property_id)
    /\ Audited(2) = {1, 2}
    /\ \E j \in 1..Len(all_findings) :
          /\ all_findings[j].control_id = "GTM-01"
          /\ all_findings[j].property_id = NormId(clients[1].property_id)
          /\ j < Len(all_findings)
          /\ all_findings[j + 1].control_id = "P-01"
          /\ all_findings[j + 1].property_id = NormId(clients[2].property_id)

(***************************************************************************)
(* C12: a target whose property id is missing, null, empty or whitespace   *)
(* only is skipped silently by run_audit.  No Finding carries a blank      *)
(* property id, no external call is made for such a target (none of        *)
(* GTM-01 either, whatever its tag-manager account id), the step that      *)
(* skips it is not followed by any control, and a target listed before and *)
(* after skipped targets gets the same Findings both times.                *)
(***************************************************************************)
C12_BlankTargetsSkipped ==
    (entry = "run_audit") =>
       /\ \A j \in 1..Len(all_findings) : all_findings[j].property_id # <<>>
       /\ \A j \in 1..Len(calls) : calls[j].t \in Audited(Len(clients))
       /\ (idx >= 1 /\ idx \notin Audited(Len(clients))) => pc \in {"ra_loop", "returned"}
       /\ LET n == Len(clients)
          IN (/\ pc = "returned"
              /\ n >= 3
              /\ clients[1] = clients[n]
              /\ world[1] = world[n]
              /\ Audited(n) = {1, n}) =>
                LET half == Len(all_findings) \div 2
                IN /\ Len(all_findings) = 2 * half
                   /\ half >= 2
                   /\ SubSeq(all_findings, 1, half) = SubSeq(all_findings, half + 1, 2 * half)
                   /\ CountOf(all_findings, {"P-01"}) = 2

\* a whitespace-only id with a tag-manager account id, between two audits of one target
C12_Witness ==
    /\ entry = "run_audit"
    /\ pc = "returned"
    /\ Len(clients) >= 3
    /\ clients[2].property_id = PyStr(<<" ">>)
    /\ NormId(clients[2].gtm_account_id) = <<"7">>
    /\ clients[1] = clients[Len(clients)]
    /\ CountOf(all_findings, {"GTM-01"}) = 2
    /\ CountOf(all_findings, {"RT-28"}) = 2

\* the target whose segment of the accumulated list holds the j-th Finding
TargetOf(j) == NthPlace(Audited(Len(clients)), CountUpTo(all_findings, j, "P-01"))

\* run_audit has finished with the target t
Finished(t) == t < idx \/ (t = idx /\ pc \in {"ra_loop", "returned"})

(***************************************************************************)
(* C13 as stated: when A-00 fails for a target, the A-00 critical/fail     *)
(* Finding is the last Finding run_audit records for the target, also when *)
(* the target supplies a tag-manager account id.                           *)
(***************************************************************************)
C13_Original ==
    (entry = "run_audit") =>
       \A j \in 1..Len(all_findings) :
          (Is(all_findings[j], "A-00", "critical", "fail") /\ j < Len(all_findings))
             => all_findings[j + 1].control_id = "P-01"

(***************************************************************************)
(* C13 amended: when A-00 fails for a target, no further control of the    *)
(* MVP chain runs for it (the chain has called get-property only), and in  *)
(* run_audit the A-00 critical/fail Finding is the last Finding of the     *)
(* target when it supplies no tag-manager account id and is followed by    *)
(* exactly the one GTM-01 Finding of the target when it does.              *)
(***************************************************************************)
C13_A00FailureThenOnlyGtm ==
    (entry = "run_audit") =>
       \A j \in 1..Len(all_findings) :
          Is(all_findings[j], "A-00", "critical", "fail") =>
             LET t == TargetOf(j)
                 af == all_findings
                 gtm == NormId(clients[t].gtm_account_id) # <<>>
                 ends(k) == k = Len(af) \/ af[k + 1].control_id = "P-01"
             IN /\ ~world[t].a00_prop.ok
                /\ OpsOf(calls, t, "MVP") = <<"get_property">>
                /\ ~gtm => ends(j)
                /\ ~ends(j) => /\ af[j + 1].control_id = "GTM-01"
                               /\ TargetOf(j + 1) = t
                               /\ ends(j + 1)
                /\ (gtm /\ Finished(t)) => ~ends(j)

\* an unreachable property with a tag-manager account id: GTM-01 follows A-00
C13_Witness ==
    /\ entry = "run_audit"
    /\ pc = "returned"
    /\ Len(all_findings) >= 4
    /\ LET n == Len(all_findings)
       IN /\ Is(all_findings[n - 1], "A-00", "critical", "fail")
          /\ all_findings[n].control_id = "GTM-01"
          /\ all_findings[n].property_id = all_findings[n - 1].property_id

\* the Findings of a control that lie in the segment of the target t
FindingsOf(t, cid) ==
    {j \in 1..Len(all_findings) : all_findings[j].control_id = cid /\ TargetOf(j) = t}

(***************************************************************************)
(* C14 as stated: GTM-01 runs for a target exactly when the target         *)
(* supplies a non-blank tag-manager account id and a non-blank property    *)
(* id.  When run_audit has stopped, such a target has exactly one GTM-01   *)
(* Finding and one container listing, info/pass when the listing succeeds  *)
(* and medium/warn with the error when it fails; any other target has no   *)
(* GTM-01 Finding and no tag-manager call.                                 *)
(***************************************************************************)
C14_GtmRunsExactlyWhenSupplied ==
    (entry = "run_audit" /\ pc \in {"returned", "raised"}) =>
       \A t \in 1..Len(clients) :
          LET supplied == /\ NormId(clients[t].property_id) # <<>>
                          /\ NormId(clients[t].gtm_account_id) # <<>>
              ops == OpsOf(calls, t, "GTM-01")
              fs == FindingsOf(t, "GTM-01")
          IN IF supplied
             THEN /\ ops = <<"containers.list">>
                  /\ Cardinality(fs) = 1
                  /\ \A j \in fs :
                        IF world[t].containers.ok
                        THEN /\ Is(all_findings[j], "GTM-01", "info", "pass")
                             /\ all_findings[j].evidence.container_count = world[t].containers.v
                        ELSE /\ Is(all_findings[j], "GTM-01", "medium", "warn")
                             /\ all_findings[j].evidence.exception_message = "403"
             ELSE ops = <<>> /\ fs = {}

\* control_custom_definitions_inventory has just returned
CmcdReturned ==
    \/ entry = "run_audit" /\ pc = "a00"
    \/ entry = "control_custom_definitions_inventory" /\ pc = "returned"

(***************************************************************************)
(* C15: CMCD-01 emits exactly one Finding: medium/warn only when both the  *)
(* custom-dimensions and the custom-metrics enumeration failed, info/pass  *)
(* with recommendation 'None.' in the three other cases.  Both             *)
(* enumerations are attempted whatever the first answered, the count of a  *)
(* failed side is null and the count of a successful side is its item      *)
(* count.                                                                  *)
(***************************************************************************)
C15_CmcdOutcome ==
    CmcdReturned =>
       LET f == findings[1]
           d == W.dims
           m == W.mets
       IN /\ Len(findings) = 1
          /\ f.control_id = "CMCD-01"
          /\ (~d.ok /\ ~m.ok) => f.severity = "medium" /\ f.status = "warn"
          /\ (d.ok \/ m.ok) =>
                f.severity = "info" /\ f.status = "pass" /\ f.recommendation = "None."
          /\ f.evidence.custom_dimensions_count = IF d.ok THEN PyInt(d.v) ELSE PyNone
          /\ f.evidence.custom_metrics_count = IF m.ok THEN PyInt(m.v) ELSE PyNone
          /\ OpsOf(calls, idx, "CMCD-01") = <<"list_custom_dimensions", "list_custom_metrics">>

\* the dimensions enumeration failed, the metrics enumeration found one metric
C15_Witness ==
    /\ entry = "control_custom_definitions_inventory"
    /\ pc = "returned"
    /\ ~W.dims.ok
    /\ W.mets = Ok(1)
    /\ Is(findings[1], "CMCD-01", "info", "pass")
    /\ findings[1].evidence.custom_dimensions_count = PyNone
    /\ findings[1].evidence.custom_metrics_count = PyInt(1)

\* control_property_profile has ended for the current target: returned or raised
P01Ended ==
    \/ entry = "control_property_profile" /\ pc \in {"returned", "raised"}
    \/ entry = "run_audit" /\ pc \in {"cmcd", "raised"}

\* the secondary surfaces of P-01 that apply to the fetched property, in the
\* order of the sub-fetches, each with its key in diagnostics.errors
P01Surfaces(w) ==
    LET parent == w.p01_prop.v.parent
        hasAccount == StartsWith(parent.s, AccountsPrefix)
        hasAccountId == hasAccount /\ AfterSlash(parent.s) # <<>>
    IN (IF hasAccount
        THEN <<[op |-> "get_account", key |-> "get_account_v1beta", ok |-> w.account.ok]>>
        ELSE <<>>)
       \o <<[op |-> "get_data_retention_settings", key |-> "get_data_retention_settings_v1beta",
             ok |-> w.retention.ok],
            [op |-> "get_google_signals_settings", key |-> "get_google_signals_settings_v1alpha",
             ok |-> w.signals.ok],
            [op |-> "get_attribution_settings", key |-> "get_attribution_settings_v1alpha",
             ok |-> w.attribution.ok],
            [op |-> "run_report", key |-> "data_api_eventCount_7d", ok |-> w.event_count.ok]>>
       \o (IF hasAccountId
           THEN <<[op |-> "search_change_history_events",
                   key |-> "search_change_history_events_v1alpha", ok |-> w.change_history.ok]>>
           ELSE <<>>)

(***************************************************************************)
(* C16 as stated: once the base property fetch of P-01 has succeeded, for  *)
(* every subset of the secondary surfaces that fails, each failing surface *)
(* has its own entry in diagnostics.errors, no surface that succeeded has  *)
(* one, every applicable sub-fetch has been attempted, and the control     *)
(* returns one P-01 Finding.                                               *)
(***************************************************************************)
C16_SubFetchesIndependent ==
    (P01Ended /\ W.p01_prop.ok) =>
       LET sf == P01Surfaces(W)
           failing == {sf[i].key : i \in {j \in 1..Len(sf) : ~sf[j].ok}}
       IN /\ pc # "raised"
          /\ Len(findings) = 1
          /\ findings[1].control_id = "P-01"
          /\ DOMAIN findings[1].evidence.diagnostics.errors = failing
          /\ OpsOf(calls, idx, "P-01") = <<"get_property">> \o [i \in 1..Len(sf) |-> sf[i].op]

(***************************************************************************)
(* C17 as stated: when the base property fetch succeeds and the parent     *)
(* reference is missing, empty or does not start with 'accounts/', P-01    *)
(* makes no get-account call and no change-history query, sets             *)
(* change_history_event_count to null, records 'skipped_no_account_parent' *)
(* under diagnostics.availability, adds no diagnostics.errors entry for    *)
(* change history, and still returns a P-01 Finding.                       *)
(***************************************************************************)
C17_NoAccountParent ==
    (/\ P01Ended
     /\ W.p01_prop.ok
     /\ ~StartsWith(W.p01_prop.v.parent.s, AccountsPrefix)) =>
       LET ops == OpsOf(calls, idx, "P-01")
           ev == findings[1].evidence
       IN /\ pc # "raised"
          /\ \A i \in 1..Len(ops) : ops[i] \notin {"get_account", "search_change_history_events"}
          /\ Len(findings) = 1
          /\ findings[1].control_id = "P-01"
          /\ Get(ev.profile, "change_history_event_count") = PyNone
          /\ "change_history_event_count" \in DOMAIN ev.profile
          /\ "change_history" \in DOMAIN ev.diagnostics.availability
          /\ ev.diagnostics.availability["change_history"] = "skipped_no_account_parent"
          /\ "search_change_history_events_v1alpha" \notin DOMAIN ev.diagnostics.errors

\* audit_ga4_property_mvp has just returned
MvpReturned ==
    \/ entry = "run_audit" /\ pc = "ra_gtm"
    \/ entry = "audit_ga4_property_mvp" /\ pc = "returned"

\* the chain got past A-02: the property is reachable and has a web stream
PastA02(w) == w.a00_prop.ok /\ w.streams.ok /\ WebPlaces(w.streams.v) # {}

\* the last n control ids of a list of Findings
LastIds(fs, n) == IdsOf(SubSeq(fs, Len(fs) - n + 1, Len(fs)))

(***************************************************************************)
(* C18: A-08 emits exactly one Finding: high/warn when the key-event       *)
(* listing succeeds with zero events or when it fails, info/pass when it   *)
(* succeeds with at least one event; whatever it answered, D-10 and RT-28  *)
(* run after it.                                                           *)
(***************************************************************************)
C18_A08Outcome ==
    /\ (pc = "d10") =>
          LET f == Last(findings)
              k == W.key_events
          IN /\ f.control_id = "A-08"
             /\ CountOf(findings, {"A-08"}) = 1
             /\ (~k.ok \/ k.v = 0) => f.severity = "high" /\ f.status = "warn"
             /\ (k.ok /\ k.v >= 1) => f.severity = "info" /\ f.status = "pass"
    /\ (MvpReturned /\ PastA02(W)) =>
          /\ LastIds(findings, 3) = <<"A-08", "D-10", "RT-28">>
          /\ CountOf(findings, {"A-08"}) = 1
          /\ LET ops == OpsOf(calls, idx, "MVP")
             IN SubSeq(ops, Len(ops) - 2, Len(ops))
                   = <<"list_conversion_events", "run_report", "run_realtime_report">>

\* the key-event listing failed and the chain still ended with D-10 and RT-28
C18_Witness ==
    /\ entry = "audit_ga4_property_mvp"
    /\ pc = "returned"
    /\ ~W.key_events.ok
    /\ Len(findings) >= 3
    /\ Is(findings[Len(findings) - 2], "A-08", "high", "warn")
    /\ LastIds(findings, 2) = <<"D-10", "RT-28">>

(***************************************************************************)
(* C19: RT-28 emits exactly one Finding and its severity is always medium: *)
(* status pass when the sum of the realtime event counts is > 0, status    *)
(* warn when the sum is 0 (no rows included) or the realtime call fails.   *)
(***************************************************************************)
C19_RT28Outcome ==
    (MvpReturned /\ PastA02(W)) =>
       LET f == Last(findings)
           r == W.realtime
           total == SumOver(1..Len(r.v), r.v)
       IN /\ f.control_id = "RT-28"
          /\ CountOf(findings, {"RT-28"}) = 1
          /\ f.severity = "medium"
          /\ (r.ok /\ total > 0) => f.status = "pass"
          /\ (r.ok /\ total = 0) => f.status = "warn"
          /\ ~r.ok => f.status = "warn"
          /\ r.ok => f.evidence.total_eventCount = total

\* a realtime report whose rows all count 0 events
C19_Witness ==
    /\ MvpReturned
    /\ W.realtime.ok
    /\ W.realtime.v # <<>>
    /\ \A i \in 1..Len(W.realtime.v) : W.realtime.v[i] = 0
    /\ Is(Last(findings), "RT-28", "medium", "warn")

(***************************************************************************)
(* C20: for each web stream, A-03 is medium/warn when the site-tag lookup  *)
(* returns no snippet or an empty one or fails and info/pass otherwise,    *)
(* and A-05 is medium/warn when the enhanced-measurement lookup returns    *)
(* nothing or fails and info/pass otherwise.  A failing per-stream lookup  *)
(* is never raised: the Findings of the remaining streams and of the later *)
(* controls follow.                                                        *)
(***************************************************************************)
C20_PerStreamLookups ==
    /\ (entry = "audit_ga4_property_mvp") => pc # "raised"
    /\ (MvpReturned /\ PastA02(W)) =>
          LET places == WebPlaces(W.streams.v)
              N == Cardinality(places)
          IN /\ Len(findings) = 2 + 2 * N + 4
             /\ LastIds(findings, 4) = <<"PL-01", "A-08", "D-10", "RT-28">>
             /\ \A k \in 1..N :
                   LET st == W.streams.v[NthPlace(places, k)]
                       a03 == findings[2 * k + 1]
                       a05 == findings[2 * k + 2]
                       gotSnippet == st.gst.ok /\ st.gst.v.k = "str" /\ st.gst.v.s # <<>>
                   IN /\ IF gotSnippet
                         THEN Is(a03, "A-03", "info", "pass")
                         ELSE Is(a03, "A-03", "medium", "warn")
                      /\ IF st.ems.ok
                         THEN Is(a05, "A-05", "info", "pass")
                         ELSE Is(a05, "A-05", "medium", "warn")

\* both lookups of the first web stream fail, those of the second succeed
C20_Witness ==
    /\ entry = "audit_ga4_property_mvp"
    /\ pc = "returned"
    /\ W.streams.ok
    /\ Len(W.streams.v) = 2
    /\ WebPlaces(W.streams.v) = {1, 2}
    /\ ~W.streams.v[1].gst.ok /\ ~W.streams.v[1].ems.ok
    /\ W.streams.v[2].gst = Ok(PyStr(<<"<script>">>)) /\ W.streams.v[2].ems.ok
    /\ Is(findings[3], "A-03", "medium", "warn")
    /\ Is(findings[5], "A-03", "info", "pass")
    /\ Is(findings[6], "A-05", "info", "pass")
    /\ Last(findings).control_id = "RT-28"

\* a list is an initial part of another
IsPrefix(a, b) == Len(a) <= Len(b) /\ a = SubSeq(b, 1, Len(a))

(***************************************************************************)
(* C21: determinism of the batch runner.  A second invocation of run_audit *)
(* on the same target list against the same external answers returns the   *)
(* same findings sequence as the first: same length, same order, and every *)
(* field of every row equal.  While the second invocation runs, what it    *)
(* has accumulated is an initial part of the first table, and it does not  *)
(* raise where the first returned.                                         *)
(***************************************************************************)
C21_SecondRunSameTable ==
    (entry = "run_audit" /\ run = 2) =>
       /\ pc # "raised"
       /\ IsPrefix(all_findings, first_table)
       /\ pc = "returned" =>
             /\ Len(all_findings) = Len(first_table)
             /\ \A j \in 1..Len(all_findings) : all_findings[j] = first_table[j]

\* two audited targets, one unreachable, the second invocation has returned
C21_Witness ==
    /\ entry = "run_audit"
    /\ run = 2
    /\ pc = "returned"
    /\ Cardinality(Audited(Len(clients))) = 2
    /\ world[1] # world[2]
    /\ Len(first_table) >= 8
    /\ all_findings = first_table

\* control_property_profile has just returned its Finding
P01Returned ==
    \/ entry = "control_property_profile" /\ pc = "returned"
    \/ entry = "run_audit" /\ pc = "cmcd"

\* the change-history query was made for the current target and succeeded
ChangeHistoryAnswered ==
    /\ P01Returned
    /\ W.change_history.ok
    /\ \E i \in 1..Len(calls) :
          calls[i].t = idx /\ calls[i].op = "search_change_history_events"

\* the places of the returned events with a change whose resource name
\* contains "properties/<pid>"
MatchingPlaces(events, pid) ==
    {i \in 1..Len(events) :
        \E c \in 1..Len(events[i].changes) :
            /\ events[i].changes[c].k = "str"
            /\ Contains(events[i].changes[c].s, PropertiesPrefix \o pid)}

(***************************************************************************)
(* C22: when the change-history query succeeds, change_history_event_count *)
(* is the number of returned events with at least one change whose         *)
(* resource name contains 'properties/<property_id>', and                  *)
(* change_history_events_sample is the first min(count, 25) of those       *)
(* events in the order returned: the sample never exceeds 25 entries and   *)
(* count >= length of the sample.                                          *)
(***************************************************************************)
C22_SampleCappedCountNot ==
    ChangeHistoryAnswered =>
       LET prof == findings[1].evidence.profile
           events == W.change_history.v
           places == MatchingPlaces(events, property_id)
           count == Cardinality(places)
           sample == prof["change_history_events_sample"]
       IN /\ prof["change_history_event_count"] = PyInt(count)
          /\ sample.k = "list"
          /\ Len(sample.s) = IF count < 25 THEN count ELSE 25
          /\ Len(sample.s) <= 25
          /\ count >= Len(sample.s)
          /\ \A k \in 1..Len(sample.s) : sample.s[k] = events[NthPlace(places, k)]

\* 40 events returned, 27 of them about this property: count 27, sample of 25
C22_Witness ==
    /\ ChangeHistoryAnswered
    /\ Len(W.change_history.v) = 40
    /\ findings[1].evidence.profile["change_history_event_count"] = PyInt(27)
    /\ Len(findings[1].evidence.profile["change_history_events_sample"].s) = 25

\* the deck generation has returned a deck
DeckMade == out.fn = "generate_property_audit_deck_from_results" /\ out.raised = ""

\* the profile in the first P-01 row of the table for the property id
FirstP01Profile(pid) ==
    LET rows == {j \in 1..Len(all_findings) :
                    all_findings[j].control_id = "P-01" /\ all_findings[j].property_id = pid}
        first == CHOOSE j \in rows : \A h \in rows : j <= h
    IN all_findings[first].evidence.profile

\* the text of a profile field, or the default when it is absent, null or empty
TextOr(prof, key, default) ==
    IF key \in DOMAIN prof /\ prof[key].k = "str" /\ prof[key].s # <<>>
    THEN prof[key].s ELSE default

\* the values of a replacement mapping
ValuesOf(r) == {r[ph] : ph \in DOMAIN r}

(***************************************************************************)
(* C23 as stated: the replacement mapping of the deck generation is        *)
(* derived from the P-01 profile and has an entry for each of account      *)
(* name, property display name, property id and an ISO date, and the new   *)
(* document is named 'GA4 Audit Property <property_id> <ISO date>'.        *)
(***************************************************************************)
C23_Original ==
    DeckMade =>
       LET prof == FirstP01Profile(out.pid)
       IN /\ TextOr(prof, "account_name", <<"Unknown Account">>) \in ValuesOf(out.replacements)
          /\ TextOr(prof, "property_name", <<"Unknown Property">>) \in ValuesOf(out.replacements)
          /\ out.pid \in ValuesOf(out.replacements)
          /\ IsoFormat(out.today) \in ValuesOf(out.replacements)
          /\ out.new_name = <<"GA4 Audit Property ">> \o out.pid \o <<" ">> \o IsoFormat(out.today)

(***************************************************************************)
(* C23 amended: the replacement mapping of the deck generation is derived  *)
(* from the P-01 profile and has exactly three entries, for account name,  *)
(* property display name and property id ('Unknown Account' and 'Unknown   *)
(* Property' standing in for a missing name); it has no entry for the      *)
(* date.  The ISO date appears in the name of the new document only, which *)
(* is 'GA4 Audit Property <property_id> <ISO date>' with the date as       *)
(* YYYY-MM-DD.                                                             *)
(***************************************************************************)
C23_ThreeReplacementsDateInName ==
    DeckMade =>
       LET prof == FirstP01Profile(out.pid)
           r == out.replacements
           d == out.today
       IN /\ DOMAIN r = {"{{ACCOUNT_NAME}}", "{{PROPERTY_NAME}}", "{{PROPERTY_ID}}"}
          /\ r["{{ACCOUNT_NAME}}"] = TextOr(prof, "account_name", <<"Unknown Account">>)
          /\ r["{{PROPERTY_NAME}}"] = TextOr(prof, "property_name", <<"Unknown Property">>)
          /\ r["{{PROPERTY_ID}}"] = out.pid
          /\ IsoFormat(d) \notin ValuesOf(r)
          /\ Len(IsoFormat(d)) = 10
          /\ out.new_name = <<"GA4 Audit Property ">> \o out.pid \o <<" ">> \o IsoFormat(d)
          /\ d = [year |-> 2024, month |-> 2, day |-> 29] =>
                IsoFormat(d) = <<"2", "0", "2", "4", "-", "0", "2", "-", "2", "9">>

\* a deck for an unreachable property, generated on 2024-02-29
C23_Witness ==
    /\ DeckMade
    /\ out.today = [year |-> 2024, month |-> 2, day |-> 29]
    /\ out.replacements["{{ACCOUNT_NAME}}"] = <<"Unknown Account">>
    /\ out.replacements["{{PROPERTY_ID}}"] = <<"1", "2">>
    /\ Last(out.new_name) = "9"

\* the fetched property of the current target has a parent reference and its
\* type is ROLLUP or SUBPROPERTY
TypedListingDue ==
    /\ P01Ended
    /\ W.p01_prop.ok
    /\ W.p01_prop.v.parent.k = "str"
    /\ W.p01_prop.v.property_type \in {PyStr(<<"ROLLUP">>), PyStr(<<"SUBPROPERTY">>)}

(***************************************************************************)
(* C24 as stated: for a property whose fetched type is ROLLUP (SUBPROPERTY)*)
(* P-01 lists the rollup source links (subproperty event filters) through  *)
(* the list-returning safe-call; the profile gains rollup_source_properties*)
(* (subproperty_event_filters) or diagnostics.errors gains an entry for    *)
(* that surface, and in both cases P-01 goes on to the event-count and     *)
(* change-history steps and returns a Finding.                             *)
(***************************************************************************)
C24_TypedListingContinues ==
    TypedListingDue =>
       LET rollup == W.p01_prop.v.property_type = PyStr(<<"ROLLUP">>)
           field == IF rollup THEN "rollup_source_properties" ELSE "subproperty_event_filters"
           key == IF rollup THEN "list_rollup_property_source_links_v1alpha"
                  ELSE "list_subproperty_event_filters_v1alpha"
           ops == OpsOf(calls, idx, "P-01")
       IN /\ pc # "raised"
          /\ Len(findings) = 1
          /\ findings[1].control_id = "P-01"
          /\ \/ field \in DOMAIN findings[1].evidence.profile
             \/ key \in DOMAIN findings[1].evidence.diagnostics.errors
          /\ \E i \in 1..Len(ops) : ops[i] = "run_report"

(***************************************************************************)
(* C25 as stated: in a chain run that does not short-circuit, the findings *)
(* are emitted in the order A-00, A-02, the per-stream A-03/A-05 findings, *)
(* A-08, PL-01, D-10, RT-28, each of A-00, A-02, A-08, PL-01, D-10 and     *)
(* RT-28 appearing exactly once.                                           *)
(***************************************************************************)
C25_Original ==
    (MvpReturned /\ PastA02(W)) =>
       LET n == Len(findings)
       IN /\ SubSeq(IdsOf(findings), 1, 2) = <<"A-00", "A-02">>
          /\ \A i \in 3..(n - 4) : findings[i].control_id \in {"A-03", "A-05"}
          /\ LastIds(findings, 4) = <<"A-08", "PL-01", "D-10", "RT-28">>
          /\ \A cid \in {"A-00", "A-02", "A-08", "PL-01", "D-10", "RT-28"} :
                CountOf(findings, {cid}) = 1

(***************************************************************************)
(* C25 amended: in a chain run that does not short-circuit, the findings   *)
(* are emitted in the order A-00, A-02, the per-stream A-03/A-05 findings, *)
(* PL-01, A-08, D-10, RT-28: the product links are evaluated before the    *)
(* key events.  Each of A-00, A-02, PL-01, A-08, D-10 and RT-28 appears    *)
(* exactly once, and the key-events listing, the event report and the      *)
(* realtime report are called once each, in that order.                    *)
(***************************************************************************)
C25_ProductLinksBeforeKeyEvents ==
    (MvpReturned /\ PastA02(W)) =>
       LET n == Len(findings)
           ops == OpsOf(calls, idx, "MVP")
       IN /\ SubSeq(IdsOf(findings), 1, 2) = <<"A-00", "A-02">>
          /\ \A i \in 3..(n - 4) : findings[i].control_id \in {"A-03", "A-05"}
          /\ LastIds(findings, 4) = <<"PL-01", "A-08", "D-10", "RT-28">>
          /\ \A cid \in {"A-00", "A-02", "A-08", "PL-01", "D-10", "RT-28"} :
                CountOf(findings, {cid}) = 1
          /\ SubSeq(ops, Len(ops) - 2, Len(ops))
                = <<"list_conversion_events", "run_report", "run_realtime_report">>
          /\ \A i \in 1..(Len(ops) - 3) :
                ops[i] \notin {"list_conversion_events", "run_report", "run_realtime_report"}

\* a full chain over two web streams with one product link listed
C25_Witness ==
    /\ MvpReturned
    /\ PastA02(W)
    /\ Cardinality(WebPlaces(W.streams.v)) = 2
    /\ Len(findings) = 10
    /\ findings[7].control_id = "PL-01"
    /\ findings[7].status = "pass"
    /\ findings[8].control_id = "A-08"

\* the D-10 Finding of a chain that has returned in full
D10Of(fs) == fs[Len(fs) - 1]

\* the report succeeded for a property that recorded both core events
BothCoreRecorded ==
    /\ MvpReturned
    /\ PastA02(W)
    /\ W.top_events.ok
    /\ {"page_view", "session_start"} \subseteq Observed(W.top_events.v)

(***************************************************************************)
(* C26 as stated: whenever the property recorded both page_view and        *)
(* session_start in the window and the report call succeeds, D-10 is       *)
(* info/pass with missing_core = [], however many other distinct event     *)
(* names the property has.                                                 *)
(***************************************************************************)
C26_CoreNeverFalselyMissing ==
    BothCoreRecorded =>
       /\ Is(D10Of(findings), "D-10", "info", "pass")
       /\ D10Of(findings).evidence.missing_core = <<>>

\* the severity/status pairs a control may emit
AllowedPair(f) ==
    LET cid == f.control_id
        pair == <<f.severity, f.status>>
    IN \/ pair = <<"info", "pass">>
       \/ pair = <<"medium", "warn">>
       \/ pair = <<"medium", "pass">> /\ cid = "RT-28"
       \/ pair = <<"critical", "fail">> /\ cid \in {"A-00", "A-02"}
       \/ pair = <<"high", "fail">> /\ cid = "D-10"
       \/ pair = <<"high", "warn">> /\ cid \in {"A-08", "D-10"}

\* every Finding emitted so far: those of the control under way, those
\* accumulated by run_audit and those of a table already returned
Emitted ==
    {findings[i] : i \in 1..Len(findings)}
    \cup {all_findings[i] : i \in 1..Len(all_findings)}
    \cup {first_table[i] : i \in 1..Len(first_table)}

\* the severity/status pairs among a set of Findings
PairsOf(fs) == {<<f.severity, f.status>> : f \in fs}

(***************************************************************************)
(* C27: every Finding that any control emits has status in {pass, fail,    *)
(* warn} and severity in {critical, high, medium, info} ('skip' and 'low'  *)
(* are never emitted), and the pair is one of: info/pass; medium/pass      *)
(* (RT-28 only); critical/fail (A-00, A-02 only); high/fail (D-10 only);   *)
(* medium/warn; high/warn (A-08, D-10 only).  So fail always has severity  *)
(* high or critical, and no Finding is both info and warn or fail.         *)
(***************************************************************************)
C27_SeverityStatusPairs ==
    \A f \in Emitted :
       /\ f.status \in {"pass", "fail", "warn"}
       /\ f.severity \in {"critical", "high", "medium", "info"}
       /\ AllowedPair(f)
       /\ f.status = "fail" => f.severity \in {"high", "critical"}
       /\ f.severity = "info" => f.status = "pass"

\* a chain that returned with the report failed: high/warn from D-10 beside
\* info/pass, medium/warn and medium/pass from the other controls
C27_Witness ==
    /\ MvpReturned
    /\ PastA02(W)
    /\ ~W.top_events.ok
    /\ Is(D10Of(findings), "D-10", "high", "warn")
    /\ {<<"info", "pass">>, <<"medium", "warn">>, <<"medium", "pass">>, <<"high", "warn">>}
          \subseteq PairsOf(Emitted)

\* the resource name is the property 'properties/<pid>' or one of its
\* sub-resources 'properties/<pid>/...'
ResourceOfProperty(name, pid) ==
    /\ name.k = "str"
    /\ \/ name.s = PropertiesPrefix \o pid
       \/ StartsWith(name.s, PropertiesPrefix \o pid \o <<"/">>)

\* the places of the returned events that changed a resource of the property
OwnPlaces(events, pid) ==
    {i \in 1..Len(events) :
        \E c \in 1..Len(events[i].changes) : ResourceOfProperty(events[i].changes[c], pid)}

(***************************************************************************)
(* C28 as stated: the change-history slice of P-01 counts only changes to  *)
(* this property: an event is in change_history_event_count and in the     *)
(* sample only if one of its changes touched a resource of the audited     *)
(* property; an event that changed resources only of another property,     *)
(* such as one whose numeric id begins with the audited id, is not counted.*)
(***************************************************************************)
C28_OnlyThisPropertyCounted ==
    ChangeHistoryAnswered =>
       LET prof == findings[1].evidence.profile
           events == W.change_history.v
           own == OwnPlaces(events, property_id)
           sample == prof["change_history_events_sample"].s
       IN /\ prof["change_history_event_count"].n <= Cardinality(own)
          /\ \A k \in 1..Len(sample) :
                \E c \in 1..Len(sample[k].changes) :
                   ResourceOfProperty(sample[k].changes[c], property_id)

\* the property ids run_audit audited: the ids of the targets, normalised
AuditedIds == {NormId(clients[i].property_id) : i \in Audited(Len(clients))}

\* get_profile_from_p01 has been called on the returned table
Looked == out.fn = "get_profile_from_p01"

====
